---- MODULE Spec2Model ----
(***************************************************************************)
(* Voxflow: the recording / transcription / refinement state machine.      *)
(*                                                                         *)
(* App (app.go) owns App.state, starts and stops the audio recorder and    *)
(* runs the processRecording pipeline on its own goroutine.  The hotkey    *)
(* Manager (internal/hotkey) owns its own copy of the state plus the       *)
(* activeTrigger, under Manager.mu, and calls App.onHotkeyPressed from the *)
(* event-loop goroutine.  App.state itself is guarded by no lock, so the   *)
(* operations are modelled statement by statement: one step per access to  *)
(* App.state, per Manager call (atomic under Manager.mu) and per Recorder  *)
(* call (atomic under Recorder.mu).                                        *)
(***************************************************************************)
EXTENDS Integers, Sequences, FiniteSets, TLC

\* ---------------------------------------------------------------- bounds
\* number of processRecording goroutines that can be in flight at once
MaxPipelines == 2

\* blocks of samples a recording may hold, WAV files written, calls of
\* DownloadModelByName, and readLoop goroutines alive at once
MaxBlocks == 2
MaxArtifacts == 2
MaxDownloads == 3
MaxLoops == 2

\* parts of a hotkey string given to parseHotkey
MaxTokens == 3

\* ------------------------------------------------------------- constants
\* (variant: one attempt fewer)
maxRetries_short == 1 + 1

\* app.go:416  maxRetries := 3
maxRetries == 3

\* recorder.go:16, 18: samples per second, samples per block read
SampleRate == 16000
FramesPerBuffer == 1024

Idle == "Idle"
Recording == "Recording"
Processing == "Processing"
State == {Idle, Recording, Processing}

TriggerNone == "None"
TriggerHandsFree == "HandsFree"
TriggerPushToTalk == "PushToTalk"
TriggerType == {TriggerNone, TriggerHandsFree, TriggerPushToTalk}

\* the two goroutines that run App operations: the hotkey event loop and
\* the goroutine serving a call bound to the frontend / the menu
HK == "hk"
UI == "ui"
Threads == {HK, UI}
Procs == 1..MaxPipelines

\* app.go:445  the blank-audio markers, compared with ==
BlankMarkers == {"[BLANK_AUDIO]", "(blank audio)", "[NO SPEECH]"}

\* results of the external engines: an error, or a text
Err(m) == [err |-> TRUE, val |-> m]
Ok(v) == [err |-> FALSE, val |-> v]
TranscribeResults ==
    {Err("model not loaded")} \cup
    {Ok(x) : x \in BlankMarkers \cup {"", "[BLANK_AUDIO] hello", "hello world"}}
RefineResults == {Err("failed to send request"), Ok("Hello, world.")}

\* How much of a pipeline run is kept: the results the engines may return,
\* and whether the run's acts are recorded in its trace.  Detailed is used
\* to examine one run; Coarse, in which both engines succeed and only the
\* capture stop may fail, to examine the interleaving of goroutines.
\* partial: whether a failed saveToWav may leave an unfinished file
Detailed == [transcribe |-> TranscribeResults, refine |-> RefineResults,
             trace |-> TRUE, partial |-> BOOLEAN]
Coarse == [transcribe |-> {Ok("hello world")},
           refine |-> {Ok("Hello, world.")}, trace |-> FALSE,
           partial |-> {FALSE}]

VARIABLES
    appState,       \* App.state
    modelReady,     \* App.modelReady
    historyOn,      \* App.historyService != nil
    injectionOn,    \* App.injectionService != nil
    mState,         \* Manager.state
    activeTrigger,  \* Manager.activeTrigger
    running,        \* Manager.running
    recording,      \* Recorder.recording
    th,             \* per goroutine: position in the operation it runs
    pl,             \* per pipeline goroutine: position and locals
    clipQueue,      \* texts handed to a delivery goroutine, not yet written
    clipboard,      \* last text written to the clipboard ("" = none)
    mu,             \* Manager.mu: "free" or "held"
    handsFreeHK,    \* Manager.handsFreeHK: the binding it holds, or NoKey
    pushToTalkHK,   \* Manager.pushToTalkHK
    osRegistered,   \* the key combinations registered with the OS
    reconfigCh,     \* the request offered on Manager.reconfigCh, and its fate
    buffer,         \* len(Recorder.buffer), in blocks of samples
    stream,         \* Recorder.stream != nil
    artifacts,      \* the WAV files written by Recorder.saveToWav, in blocks
    recLast,        \* the last Recorder call and what it returned
    downloadCancel, \* App.downloadCancel: the download it cancels, 0 = nil
    dl,             \* per DownloadModelByName call: position, context
    watch,          \* which of the observations below are recorded
    lastKey,        \* the last key event handled by the event loop
    pendingNotes,   \* writes of App.state not yet notified, in write order
    lateNote,       \* the last state-changed notification was overtaken
    loops,          \* the Recorder.readLoop goroutines, by generation and position
    disk,           \* the WAV files of the pipelines in the temp directory
    probe,          \* the last call of Manager.Start or parseHotkey, its result
    config,         \* Config: the two hotkey strings in memory, and on disk
    setter          \* the call of SetHandsFreeHotkey / SetPushToTalkHotkey

vars == <<appState, modelReady, historyOn, injectionOn, mState, activeTrigger,
          running, recording, th, pl, clipQueue, clipboard, mu,
          handsFreeHK, pushToTalkHK, osRegistered, reconfigCh,
          buffer, stream, artifacts, recLast, downloadCancel, dl,
          watch, lastKey, pendingNotes, lateNote, loops, disk, probe,
          config, setter>>

mgrVars == <<mState, activeTrigger, running, mu>>
cfgVars == <<modelReady, historyOn, injectionOn>>
clipVars == <<clipQueue, clipboard>>
regVars == <<handsFreeHK, pushToTalkHK, osRegistered, reconfigCh>>
recVars == <<buffer, stream, artifacts, recLast, loops>>
dlVars == <<downloadCancel, dl>>
noteVars == <<pendingNotes, lateNote>>
obsVars == <<watch, lastKey, noteVars>>
\* what the recording state machine never touches
setVars == <<config, setter>>
farVars == <<regVars, recVars, dlVars, probe, disk, setVars>>

\* ------------------------------------------------------------ goroutines
\* pc: where the goroutine is; arg: the state passed to the callback;
\* ret: what the operation returned
\* pre: App.state and Manager.state when the request was made;
\* told: the state-changed notification the operation has emitted last
NoSnapshot == <<Idle, Idle>>
\* watch: "off", "keys" (the key events only) or "all"
WatchKeys == watch # "off"
WatchAll == watch = "all"

Snapshot == IF WatchAll THEN <<appState, mState>> ELSE NoSnapshot
ThreadIdle == [pc |-> "idle", arg |-> Idle, ret |-> "none", pre |-> NoSnapshot,
               told |-> "none"]

\* pc "none" = no goroutine in this slot
\* announced: the Processing notification of the StopRecording that
\* launched the goroutine had been emitted when it was launched
NoPipeline == [pc |-> "none", attempt |-> 1, rawText |-> "", polishedText |-> "",
               ok |-> FALSE, wav |-> FALSE, announced |-> FALSE, log |-> <<>>]

\* one entry of a pipeline's trace of externally visible acts
Ev(k, a, b, c) == [k |-> k, a |-> a, b |-> b, c |-> c]

Active(p) == pl[p].pc # "none"
ActivePipelines == {p \in Procs : Active(p)}

\* ------------------------------------------------------------ observation
\* the goroutines that write App.state and emit state-changed
Who(t) == IF t = HK THEN 0 - 1 ELSE 0 - 2

HasPending(who) == \E i \in 1..Len(pendingNotes) : pendingNotes[i].who = who
Without(who) == SelectSeq(pendingNotes, LAMBDA e : e.who # who)
Overtaken(notes) == [j \in 1..Len(notes) |-> [notes[j] EXCEPT !.late = TRUE]]

\* goroutine who writes App.state: a transition whose notification is due
Write(who) ==
    /\ pendingNotes' = IF WatchAll
                         THEN Append(Without(who), [who |-> who, late |-> FALSE])
                         ELSE pendingNotes
    /\ UNCHANGED lateNote

\* goroutine who emits state-changed for its last write: the earlier writes
\* still waiting for their notification have been overtaken
Emit(who) ==
    IF WatchAll /\ HasPending(who)
      THEN LET i == CHOOSE j \in 1..Len(pendingNotes) : pendingNotes[j].who = who IN
           /\ pendingNotes' = Overtaken(SubSeq(pendingNotes, 1, i - 1)) \o
                                SubSeq(pendingNotes, i + 1, Len(pendingNotes))
           /\ lateNote' = pendingNotes[i].late
      ELSE UNCHANGED noteVars

\* a write and its notification in consecutive statements
WriteEmit(who) ==
    /\ pendingNotes' = IF WatchAll THEN Overtaken(Without(who)) ELSE pendingNotes
    /\ lateNote' = IF WatchAll THEN FALSE ELSE lateNote

\* the event loop handles key event k
\* (on: Manager.running as the handler found it)
Key(k) ==
    lastKey' = IF WatchKeys THEN [key |-> k, n |-> 1 - lastKey.n, on |-> running]
               ELSE lastKey

\* ---------------------------------------------------------------- Manager
\* Manager.SetState: clears activeTrigger only for StateIdle
SetState(state) ==
    /\ mu = "free"
    /\ mState' = state
    /\ activeTrigger' = IF state = Idle THEN TriggerNone ELSE activeTrigger
    /\ UNCHANGED <<running, mu>>

\* (variant: the callback is called before m.mu.Unlock())
Dispatch_underLock(shouldCallback, newState) ==
    /\ th' = [th EXCEPT ![HK] =
                IF shouldCallback
                  THEN [ThreadIdle EXCEPT !.pc = "cb", !.arg = newState,
                                          !.pre = Snapshot]
                  ELSE @]
    /\ mu' = IF shouldCallback THEN "held" ELSE "free"

\* leave the handler: m.mu.Unlock(), then the callback if there is one to
\* run, or back to the event loop
Dispatch(shouldCallback, newState) ==
    /\ th' = [th EXCEPT ![HK] =
                IF shouldCallback
                  THEN [ThreadIdle EXCEPT !.pc = "cb", !.arg = newState,
                                          !.pre = Snapshot]
                  ELSE @]
    /\ mu' = "free"

\* (variant: a press stops only a recording that a hands-free press began)
handleHandsFree_ownOnly ==
    /\ th[HK].pc = "idle"
    /\ mu = "free"
    /\ Key("hf")
    /\ IF ~running
         THEN UNCHANGED <<mState, activeTrigger, th, mu>>
         ELSE CASE mState = Idle ->
                     /\ mState' = Recording
                     /\ activeTrigger' = TriggerHandsFree
                     /\ Dispatch(TRUE, Recording)
                [] mState = Recording /\ activeTrigger = TriggerHandsFree ->
                     /\ mState' = Processing
                     /\ activeTrigger' = TriggerNone
                     /\ Dispatch(TRUE, Processing)
                [] OTHER -> UNCHANGED <<mState, activeTrigger, th, mu>>
    /\ UNCHANGED <<appState, cfgVars, farVars, watch, noteVars, running, recording, pl, clipVars>>

\* (variant: no check of m.running)
handleHandsFree_whileStopped ==
    /\ th[HK].pc = "idle"
    /\ mu = "free"
    /\ Key("hf")
    /\ CASE mState = Idle ->
              /\ mState' = Recording
              /\ activeTrigger' = TriggerHandsFree
              /\ Dispatch(TRUE, Recording)
         [] mState = Recording
               /\ activeTrigger \in {TriggerHandsFree, TriggerNone} ->
              /\ mState' = Processing
              /\ activeTrigger' = TriggerNone
              /\ Dispatch(TRUE, Processing)
         [] OTHER -> UNCHANGED <<mState, activeTrigger, th, mu>>
    /\ UNCHANGED <<appState, cfgVars, farVars, watch, noteVars, running, recording, pl, clipVars>>

\* Manager.handleHandsFree, the part under Manager.mu
handleHandsFree ==
    /\ th[HK].pc = "idle"
    /\ mu = "free"
    /\ Key("hf")
    /\ IF ~running
         THEN UNCHANGED <<mState, activeTrigger, th, mu>>
         ELSE CASE mState = Idle ->
                     /\ mState' = Recording
                     /\ activeTrigger' = TriggerHandsFree
                     /\ Dispatch(TRUE, Recording)
                [] mState = Recording
                      /\ activeTrigger \in {TriggerHandsFree, TriggerNone} ->
                     /\ mState' = Processing
                     /\ activeTrigger' = TriggerNone
                     /\ Dispatch(TRUE, Processing)
                [] OTHER -> UNCHANGED <<mState, activeTrigger, th, mu>>
    /\ UNCHANGED <<appState, cfgVars, farVars, watch, noteVars, running, recording, pl, clipVars>>

\* (variant: a press begins a recording whatever the state)
handlePushToTalkDown_anyState ==
    /\ th[HK].pc = "idle"
    /\ mu = "free"
    /\ Key("down")
    /\ IF running
         THEN /\ mState' = Recording
              /\ activeTrigger' = TriggerPushToTalk
              /\ Dispatch(TRUE, Recording)
         ELSE UNCHANGED <<mState, activeTrigger, th, mu>>
    /\ UNCHANGED <<appState, cfgVars, farVars, watch, noteVars, running, recording, pl, clipVars>>

\* Manager.handlePushToTalkDown
handlePushToTalkDown ==
    /\ th[HK].pc = "idle"
    /\ mu = "free"
    /\ Key("down")
    /\ IF running /\ mState = Idle
         THEN /\ mState' = Recording
              /\ activeTrigger' = TriggerPushToTalk
              /\ Dispatch(TRUE, Recording)
         ELSE UNCHANGED <<mState, activeTrigger, th, mu>>
    /\ UNCHANGED <<appState, cfgVars, farVars, watch, noteVars, running, recording, pl, clipVars>>

\* (variant: a release stops the recording whoever owns it)
handlePushToTalkUp_anyTrigger ==
    /\ th[HK].pc = "idle"
    /\ mu = "free"
    /\ Key("up")
    /\ IF running /\ mState = Recording
         THEN /\ mState' = Processing
              /\ activeTrigger' = TriggerNone
              /\ Dispatch(TRUE, Processing)
         ELSE UNCHANGED <<mState, activeTrigger, th, mu>>
    /\ UNCHANGED <<appState, cfgVars, farVars, watch, noteVars, running, recording, pl, clipVars>>

\* Manager.handlePushToTalkUp
handlePushToTalkUp ==
    /\ th[HK].pc = "idle"
    /\ mu = "free"
    /\ Key("up")
    /\ IF running /\ mState = Recording /\ activeTrigger = TriggerPushToTalk
         THEN /\ mState' = Processing
              /\ activeTrigger' = TriggerNone
              /\ Dispatch(TRUE, Processing)
         ELSE UNCHANGED <<mState, activeTrigger, th, mu>>
    /\ UNCHANGED <<appState, cfgVars, farVars, watch, noteVars, running, recording, pl, clipVars>>

\* Manager.Stop: running = false under Manager.mu; the event loop and the
\* registered hotkeys are left as they are
Stop ==
    /\ mu = "free"
    /\ running
    /\ running' = FALSE
    /\ UNCHANGED <<appState, cfgVars, farVars, obsVars, mState, activeTrigger, mu,
                   recording, th, pl, clipVars>>

\* --------------------------------------------------------------- Recorder
\* Recorder.Start: the error it returns ("" = nil); streamOK says whether
\* the audio stream could be opened and started
RecorderStartErr(streamOK) ==
    IF recording THEN "already recording"
    ELSE IF streamOK THEN "" ELSE "failed to start audio stream"

\* Recorder.Start: the recording flag it leaves
RecorderStartFlag(streamOK) == IF recording THEN TRUE ELSE streamOK

\* Recorder.Stop: the error it returns ("" = nil, an artifact was written);
\* saved says whether samples were captured and the WAV file was written
RecorderStopErr(saved) ==
    IF ~recording THEN "not recording"
    ELSE IF saved THEN "" ELSE "no audio data recorded"

\* ------------------------------------------------------------- App: calls
Call(t, firstPc) ==
    th' = [th EXCEPT ![t] = [ThreadIdle EXCEPT !.pc = firstPc, !.pre = Snapshot]]

Goto(t, nextPc) == th' = [th EXCEPT ![t].pc = nextPc]

\* the operation is over; its result stays visible until the goroutine
\* goes back to waiting (Finish)
Return(t, result) == th' = [th EXCEPT ![t].pc = "ret", ![t].ret = result]

Finish(t) ==
    /\ th[t].pc = "ret"
    /\ th' = [th EXCEPT ![t] = ThreadIdle]
    /\ UNCHANGED <<appState, cfgVars, farVars, obsVars, mgrVars, recording, pl, clipVars>>

\* App.onHotkeyPressed: a.state = state, then StartRecording / StopRecording
onHotkeyPressed ==
    /\ th[HK].pc = "cb"
    /\ appState' = th[HK].arg
    /\ WriteEmit(Who(HK))
    /\ th' = [th EXCEPT ![HK] =
                [ThreadIdle EXCEPT !.pc = IF th[HK].arg = Recording THEN "sr_check"
                                          ELSE IF th[HK].arg = Processing THEN "st_set"
                                          ELSE "idle",
                                  !.pre = th[HK].pre,
                                  !.told = th[HK].arg]]
    /\ UNCHANGED <<cfgVars, farVars, watch, lastKey, mgrVars, recording, pl, clipVars>>

\* App.ToggleRecording: the switch on a.state
ToggleRecording ==
    /\ th[UI].pc = "idle"
    /\ CASE appState = Idle -> Call(UI, "sr_check")
         [] appState = Recording -> Call(UI, "st_set")
         [] OTHER -> th' = [th EXCEPT ![UI] =
                              [ThreadIdle EXCEPT !.pc = "ret", !.ret = appState]]
    /\ UNCHANGED <<appState, cfgVars, farVars, obsVars, mgrVars, recording, pl, clipVars>>

\* App.StartRecording called through the frontend binding
CallStartRecording ==
    /\ th[UI].pc = "idle"
    /\ Call(UI, "sr_check")
    /\ UNCHANGED <<appState, cfgVars, farVars, obsVars, mgrVars, recording, pl, clipVars>>

\* App.StopRecording called through the frontend binding
CallStopRecording ==
    /\ th[UI].pc = "idle"
    /\ Call(UI, "st_set")
    /\ UNCHANGED <<appState, cfgVars, farVars, obsVars, mgrVars, recording, pl, clipVars>>

\* ------------------------------------------------- App.StartRecording
\* if !a.modelReady { return error }
StartCheck(t) ==
    /\ th[t].pc = "sr_check"
    /\ th' = [th EXCEPT ![t] =
                [pc |-> IF modelReady THEN "sr_set" ELSE "ret",
                 arg |-> @.arg,
                 pre |-> @.pre,
                 told |-> @.told,
                 ret |-> IF modelReady THEN "none" ELSE "model not ready"]]
    /\ UNCHANGED <<appState, cfgVars, farVars, obsVars, mgrVars, recording, pl, clipVars>>

\* a.state = StateRecording
StartSetState(t) ==
    /\ th[t].pc = "sr_set"
    /\ appState' = Recording
    /\ Goto(t, "sr_mgr")
    /\ Write(Who(t))
    /\ UNCHANGED <<cfgVars, farVars, watch, lastKey, mgrVars, recording, pl, clipVars>>

\* a.hotkeyManager.SetState(StateRecording)
StartSetManager(t) ==
    /\ th[t].pc = "sr_mgr"
    /\ SetState(Recording)
    /\ Goto(t, "sr_rec")
    /\ UNCHANGED <<appState, cfgVars, farVars, obsVars, recording, pl, clipVars>>

\* a.audioRecorder.Start(); on success the Recording notification
StartRecorder(t) ==
    /\ th[t].pc = "sr_rec"
    /\ \E streamOK \in BOOLEAN :
         /\ recording' = RecorderStartFlag(streamOK)
         /\ IF RecorderStartErr(streamOK) = ""
              THEN /\ th' = [th EXCEPT ![t].pc = "ret", ![t].ret = "ok",
                                       ![t].told = Recording]
                   /\ Emit(Who(t))
              ELSE /\ th' = [th EXCEPT ![t].pc = "sr_rb_set",
                                       ![t].ret = RecorderStartErr(streamOK)]
                   /\ UNCHANGED noteVars
    /\ UNCHANGED <<appState, cfgVars, farVars, watch, lastKey, mgrVars, pl, clipVars>>

\* the rollback: a.state = StateIdle
StartRollbackState(t) ==
    /\ th[t].pc = "sr_rb_set"
    /\ appState' = Idle
    /\ Goto(t, "sr_rb_mgr")
    /\ Write(Who(t))
    /\ UNCHANGED <<cfgVars, farVars, watch, lastKey, mgrVars, recording, pl, clipVars>>

\* the rollback: a.hotkeyManager.SetState(StateIdle), emit "error", return
StartRollbackManager(t) ==
    /\ th[t].pc = "sr_rb_mgr"
    /\ SetState(Idle)
    /\ Return(t, th[t].ret)
    /\ UNCHANGED <<appState, cfgVars, farVars, obsVars, recording, pl, clipVars>>

StartRecording(t) ==
    \/ StartCheck(t)
    \/ StartSetState(t)
    \/ StartSetManager(t)
    \/ StartRecorder(t)
    \/ StartRollbackState(t)
    \/ StartRollbackManager(t)

\* -------------------------------------------------- App.StopRecording
\* a.state = StateProcessing
StopSetState(t) ==
    /\ th[t].pc = "st_set"
    /\ appState' = Processing
    /\ Goto(t, "st_mgr")
    /\ Write(Who(t))
    /\ UNCHANGED <<cfgVars, farVars, watch, lastKey, mgrVars, recording, pl, clipVars>>

\* a.hotkeyManager.SetState(StateProcessing), the Processing notification
StopSetManager(t) ==
    /\ th[t].pc = "st_mgr"
    /\ SetState(Processing)
    /\ th' = [th EXCEPT ![t].pc = "st_go", ![t].told = Processing]
    /\ Emit(Who(t))
    /\ UNCHANGED <<appState, cfgVars, farVars, watch, lastKey, recording, pl, clipVars>>

FreeSlots(slots) == {p \in slots : ~Active(p)}
NextSlot(slots) == CHOOSE p \in FreeSlots(slots) : \A q \in FreeSlots(slots) : p <= q

\* go a.processRecording()
StopLaunch(t, slots) ==
    /\ th[t].pc = "st_go"
    /\ FreeSlots(slots) # {}
    /\ pl' = [pl EXCEPT ![NextSlot(slots)] = [NoPipeline EXCEPT !.pc = "stop",
                                          !.announced = (th[t].told = Processing)]]
    /\ Return(t, "ok")
    /\ UNCHANGED <<appState, cfgVars, farVars, obsVars, mgrVars, recording, clipVars>>

\* (variant: the goroutine is launched first, the state set afterwards)
StopRecording_launchFirst(t, slots) ==
    \/ /\ th[t].pc = "st_set"
       /\ FreeSlots(slots) # {}
       /\ pl' = [pl EXCEPT ![NextSlot(slots)] =
                    [NoPipeline EXCEPT !.pc = "stop",
                                       !.announced = (th[t].told = Processing)]]
       /\ appState' = Processing
       /\ Write(Who(t))
       /\ Goto(t, "st_mgr")
       /\ UNCHANGED <<cfgVars, farVars, watch, lastKey, mgrVars, recording, clipVars>>
    \/ StopSetManager(t)
    \/ /\ th[t].pc = "st_go"
       /\ Return(t, "ok")
       /\ UNCHANGED <<appState, cfgVars, farVars, obsVars, mgrVars, recording, pl, clipVars>>

StopRecording(t, slots) ==
    \/ StopSetState(t)
    \/ StopSetManager(t)
    \/ StopLaunch(t, slots)

\* ------------------------------------------------ App.processRecording
Toast(type, prefix, detail) == Ev("toast", type, prefix, detail)

\* (variant: a substring test, true of any text that contains a marker)
IsBlankMarker_contains(rawText) ==
    rawText \in {"[BLANK_AUDIO]", "(blank audio)", "[NO SPEECH]",
                 "[BLANK_AUDIO] hello"}

\* app.go:445  rawText == "[BLANK_AUDIO]" || rawText == "(blank audio)" ||
\* rawText == "[NO SPEECH]"
IsBlankMarker(rawText) ==
    \/ rawText = "[BLANK_AUDIO]"
    \/ rawText = "(blank audio)"
    \/ rawText = "[NO SPEECH]"

\* the goroutine moves on to rec, having performed acts
Advance(p, d, rec, acts) ==
    pl' = [pl EXCEPT ![p] =
             [rec EXCEPT !.log = IF d.trace THEN pl[p].log \o acts ELSE <<>>]]

\* a.emitToast(...); a.resetToIdle(); return
Abort(p, d, acts) == Advance(p, d, [pl[p] EXCEPT !.pc = "setIdle"], acts)

\* the file of the pipeline in slot p; Unfinished stands for the files
\* that a saveToWav which failed after os.Create has left behind
Unfinished == 0
WavFile(p) == p

\* wavPath, err := a.audioRecorder.Stop(); defer os.Remove(wavPath)
processStop(p, d) ==
    /\ pl[p].pc = "stop"
    /\ \E saved \in BOOLEAN, partial \in d.partial :
         LET e == RecorderStopErr(saved) IN
         /\ recording' = FALSE
         /\ IF e = ""
              THEN /\ Advance(p, d, [pl[p] EXCEPT !.pc = "transcribe", !.wav = TRUE],
                              <<Ev("stop", "ok", "", "")>>)
                   /\ disk' = disk \cup {WavFile(p)}
              ELSE /\ Abort(p, d, <<Ev("stop", "error", e, ""),
                                    Toast("error", "Failed to stop recording: ", e)>>)
                   /\ disk' = IF recording /\ partial THEN disk \cup {Unfinished}
                              ELSE disk
    /\ UNCHANGED <<appState, cfgVars, regVars, recVars, dlVars, probe, setVars, obsVars,
                   mgrVars, th, clipVars>>

\* (variant: an error of the engine is retried like an empty result)
processTranscribe_retryOnError(p, d) ==
    /\ pl[p].pc = "transcribe"
    /\ \E r \in d.transcribe :
         LET call == Ev("transcribe", IF r.err THEN "error" ELSE "ok", r.val, "") IN
         CASE r.err /\ pl[p].attempt < maxRetries ->
                Advance(p, d, [pl[p] EXCEPT !.attempt = @ + 1], <<call>>)
           [] r.err /\ pl[p].attempt >= maxRetries ->
                Abort(p, d, <<call, Toast("error", "Transcription failed: ", r.val)>>)
           [] ~r.err /\ r.val # "" /\ IsBlankMarker(r.val) ->
                Advance(p, d, [pl[p] EXCEPT !.pc = "setIdle", !.rawText = r.val],
                        <<call, Toast("warning",
                            "No speech detected. Please try speaking into your microphone.", "")>>)
           [] ~r.err /\ r.val # "" /\ ~IsBlankMarker(r.val) ->
                Advance(p, d, [pl[p] EXCEPT !.pc = "refine", !.rawText = r.val],
                        <<call>>)
           [] ~r.err /\ r.val = "" /\ pl[p].attempt < maxRetries ->
                Advance(p, d, [pl[p] EXCEPT !.attempt = @ + 1], <<call>>)
           [] OTHER ->
                Abort(p, d, <<call, Toast("warning",
                   "No audio was captured. Please try speaking louder or check your microphone.", "")>>)
    /\ UNCHANGED <<appState, cfgVars, farVars, obsVars, mgrVars, recording, th, clipVars>>

\* one pass of the retry loop, and the checks that follow the loop
processTranscribe(p, d) ==
    /\ pl[p].pc = "transcribe"
    /\ \E r \in d.transcribe :
         LET call == Ev("transcribe", IF r.err THEN "error" ELSE "ok", r.val, "") IN
         CASE r.err ->
                Abort(p, d, <<call, Toast("error", "Transcription failed: ", r.val)>>)
           [] ~r.err /\ r.val # "" /\ IsBlankMarker(r.val) ->
                Advance(p, d, [pl[p] EXCEPT !.pc = "setIdle", !.rawText = r.val],
                        <<call, Toast("warning",
                            "No speech detected. Please try speaking into your microphone.", "")>>)
           [] ~r.err /\ r.val # "" /\ ~IsBlankMarker(r.val) ->
                Advance(p, d, [pl[p] EXCEPT !.pc = "refine", !.rawText = r.val],
                        <<call>>)
           [] ~r.err /\ r.val = "" /\ pl[p].attempt < maxRetries ->
                Advance(p, d, [pl[p] EXCEPT !.attempt = @ + 1], <<call>>)
           [] OTHER ->
                Abort(p, d, <<call, Toast("warning",
                   "No audio was captured. Please try speaking louder or check your microphone.", "")>>)
    /\ UNCHANGED <<appState, cfgVars, farVars, obsVars, mgrVars, recording, th, clipVars>>

\* (variant: on a refinement error the raw text is delivered instead)
processRefine_fallback(p, d) ==
    /\ pl[p].pc = "refine"
    /\ \E r \in d.refine :
         LET call == Ev("refine", IF r.err THEN "error" ELSE "ok", pl[p].rawText, r.val) IN
         Advance(p, d, [pl[p] EXCEPT !.pc = "deliver",
                           !.polishedText = IF r.err THEN pl[p].rawText ELSE r.val],
                 <<call>>)
    /\ UNCHANGED <<appState, cfgVars, farVars, obsVars, mgrVars, recording, th, clipVars>>

\* polishedText, err := a.geminiClient.RefineText(rawText, mode)
processRefine(p, d) ==
    /\ pl[p].pc = "refine"
    /\ \E r \in d.refine :
         LET call == Ev("refine", IF r.err THEN "error" ELSE "ok", pl[p].rawText, r.val) IN
         IF r.err
           THEN Abort(p, d, <<call, Toast("error", "Gemini error: ", r.val)>>)
           ELSE Advance(p, d, [pl[p] EXCEPT !.pc = "deliver", !.polishedText = r.val],
                        <<call>>)
    /\ UNCHANGED <<appState, cfgVars, farVars, obsVars, mgrVars, recording, th, clipVars>>

\* (variant: a history save that fails ends the run like an engine error)
processDeliver_strict(p, d) ==
    /\ pl[p].pc = "deliver"
    /\ \E saveOK \in BOOLEAN :
         LET save == IF historyOn
                       THEN <<Ev("save", IF saveOK THEN "ok" ELSE "error",
                                 pl[p].rawText, pl[p].polishedText)>>
                       ELSE <<>>
             copy == IF injectionOn
                       THEN <<Ev("deliver", "spawned", pl[p].polishedText, "")>>
                       ELSE <<>>
         IN IF historyOn /\ ~saveOK
              THEN /\ Abort(p, d, save \o <<Toast("error", "History error: ", "")>>)
                   /\ UNCHANGED clipQueue
              ELSE /\ Advance(p, d, [pl[p] EXCEPT !.pc = "setIdle", !.ok = TRUE],
                              save \o copy)
                   /\ clipQueue' = IF injectionOn
                                     THEN clipQueue \cup {pl[p].polishedText}
                                     ELSE clipQueue
    /\ UNCHANGED <<appState, cfgVars, farVars, obsVars, mgrVars, recording, th, clipboard>>

\* a.historyService.Save(...) and the goroutine that copies and injects
processDeliver(p, d) ==
    /\ pl[p].pc = "deliver"
    /\ \E saveOK \in BOOLEAN :
         LET save == IF historyOn
                       THEN <<Ev("save", IF saveOK THEN "ok" ELSE "error",
                                 pl[p].rawText, pl[p].polishedText)>>
                       ELSE <<>>
             copy == IF injectionOn
                       THEN <<Ev("deliver", "spawned", pl[p].polishedText, "")>>
                       ELSE <<>>
         IN Advance(p, d, [pl[p] EXCEPT !.pc = "setIdle", !.ok = TRUE], save \o copy)
    /\ clipQueue' = IF injectionOn THEN clipQueue \cup {pl[p].polishedText}
                    ELSE clipQueue
    /\ UNCHANGED <<appState, cfgVars, farVars, obsVars, mgrVars, recording, th, clipboard>>

\* a.state = StateIdle  (resetToIdle, and app.go:502 on success)
resetSetState(p, d) ==
    /\ pl[p].pc = "setIdle"
    /\ appState' = Idle
    /\ Advance(p, d, [pl[p] EXCEPT !.pc = "mgrIdle"], <<Ev("state", Idle, "", "")>>)
    /\ Write(p)
    /\ UNCHANGED <<cfgVars, farVars, watch, lastKey, mgrVars, recording, th, clipVars>>

\* a.hotkeyManager.SetState(StateIdle)
resetSetManager(p, d) ==
    /\ pl[p].pc = "mgrIdle"
    /\ SetState(Idle)
    /\ Advance(p, d, [pl[p] EXCEPT !.pc = "emit"], <<Ev("manager", Idle, "", "")>>)
    /\ UNCHANGED <<appState, cfgVars, farVars, obsVars, recording, th, clipVars>>

\* (variant: processing-complete carries the raw text)
processEmit_raw(p, d) ==
    /\ pl[p].pc = "emit"
    /\ Advance(p, d, [pl[p] EXCEPT !.pc = "exit"],
               <<Ev("emit", "state-changed", Idle, "")>> \o
               (IF pl[p].ok
                  THEN <<Ev("emit", "processing-complete", pl[p].rawText, "")>>
                  ELSE <<>>))
    /\ Emit(p)
    /\ UNCHANGED <<appState, cfgVars, farVars, watch, lastKey, mgrVars, recording, th, clipVars>>

\* EventsEmit "state-changed" Idle, and "processing-complete" on success
processEmit(p, d) ==
    /\ pl[p].pc = "emit"
    /\ Advance(p, d, [pl[p] EXCEPT !.pc = "exit"],
               <<Ev("emit", "state-changed", Idle, "")>> \o
               (IF pl[p].ok
                  THEN <<Ev("emit", "processing-complete", pl[p].polishedText, "")>>
                  ELSE <<>>))
    /\ Emit(p)
    /\ UNCHANGED <<appState, cfgVars, farVars, watch, lastKey, mgrVars, recording, th, clipVars>>

\* (variant: no deferred os.Remove)
processExit_keepFile(p) ==
    /\ pl[p].pc = "exit"
    /\ pl' = [pl EXCEPT ![p] = NoPipeline]
    /\ UNCHANGED <<appState, cfgVars, farVars, obsVars, mgrVars, recording, th, clipVars>>

\* the function returns: the deferred os.Remove(wavPath) runs, if the
\* function got as far as the defer statement
processExit(p) ==
    /\ pl[p].pc = "exit"
    /\ pl' = [pl EXCEPT ![p] = NoPipeline]
    /\ disk' = IF pl[p].wav THEN disk \ {WavFile(p)} ELSE disk
    /\ UNCHANGED <<appState, cfgVars, regVars, recVars, dlVars, probe, setVars, obsVars,
                   mgrVars, recording, th, clipVars>>

resetToIdle(p, d) == resetSetState(p, d) \/ resetSetManager(p, d)

processRecording(p, d) ==
    \/ processStop(p, d)
    \/ processTranscribe(p, d)
    \/ processRefine(p, d)
    \/ processDeliver(p, d)
    \/ resetToIdle(p, d)
    \/ processEmit(p, d)
    \/ processExit(p)

\* the goroutine of app.go:474: CopyToClipboard, then Inject
deliverClipboard ==
    /\ \E text \in clipQueue :
         /\ clipboard' = text
         /\ clipQueue' = clipQueue \ {text}
    /\ UNCHANGED <<appState, cfgVars, farVars, obsVars, mgrVars, recording, th, pl>>

\* ------------------------------------------------------- model readiness
\* App.checkModelStatus / App.DownloadModel: a.modelReady = true
checkModelStatus ==
    /\ ~modelReady
    /\ modelReady' = TRUE
    /\ UNCHANGED <<appState, historyOn, injectionOn, mgrVars, recording, th, pl,
                   clipVars, farVars, obsVars>>

\* App.SetWhisperModel: a.modelReady = false
SetWhisperModel ==
    /\ modelReady
    /\ modelReady' = FALSE
    /\ UNCHANGED <<appState, historyOn, injectionOn, mgrVars, recording, th, pl,
                   clipVars, farVars, obsVars>>

\* ------------------------------------------------- Recorder, in detail
\* The App operations above see the recorder through its recording flag
\* alone; here are its buffer, its stream and the files it writes.
NoCall == [op |-> "none", err |-> "", prev |-> "none", n |-> 0]
Called(op, err) == [op |-> op, err |-> err, prev |-> recLast.op, n |-> 1 - recLast.n]

\* the readLoop goroutines: how many are at the check of the recording
\* flag, in stream.Read(), and between Read and the append
\* cur: the loops of the recording in progress; old: the loops whose
\* recording a Stop has ended
NoGen == [check |-> 0, read |-> 0, append |-> 0]
NoLoops == [cur |-> NoGen, old |-> NoGen]
Generations == {"cur", "old"}
InGen(g) == loops[g].check + loops[g].read + loops[g].append
LoopCount == InGen("cur") + InGen("old")

\* go r.readLoop(inputBuffer)
Launched == [loops EXCEPT !.cur.check = @ + 1]

\* Stop has ended the recording: its loops are loops of an ended recording
Retired ==
    [cur |-> NoGen,
     old |-> [check |-> loops.old.check + loops.cur.check,
              read |-> loops.old.read + loops.cur.read,
              append |-> loops.old.append + loops.cur.append]]

\* a loop of generation g goes from one position to the next, or returns
Moved(g, from, to) == [loops EXCEPT ![g][from] = @ - 1, ![g][to] = @ + 1]
Left(g, from) == [loops EXCEPT ![g][from] = @ - 1]

\* (variant: the buffer is cleared before the check of the flag)
RecorderStart_clearFirst ==
    /\ \E openOK \in BOOLEAN, startOK \in BOOLEAN :
         LET streamOK == openOK /\ startOK
             launched == ~recording /\ streamOK
         IN
         /\ launched => LoopCount < MaxLoops
         /\ recording' = RecorderStartFlag(streamOK)
         /\ buffer' = 0
         /\ stream' = IF ~recording /\ openOK THEN TRUE ELSE stream
         /\ loops' = IF launched THEN Launched ELSE loops
         /\ recLast' = Called("start", RecorderStartErr(streamOK))
    /\ UNCHANGED <<appState, cfgVars, mgrVars, th, pl, clipVars, regVars,
                   artifacts, dlVars, obsVars, probe, setVars, disk>>

\* Recorder.Start; on success it launches a readLoop goroutine
RecorderStart ==
    /\ \E openOK \in BOOLEAN, startOK \in BOOLEAN :
         LET streamOK == openOK /\ startOK
             launched == ~recording /\ streamOK
         IN
         /\ launched => LoopCount < MaxLoops
         /\ recording' = RecorderStartFlag(streamOK)
         /\ buffer' = IF recording THEN buffer ELSE 0
         /\ stream' = IF ~recording /\ openOK THEN TRUE ELSE stream
         /\ loops' = IF launched THEN Launched ELSE loops
         /\ recLast' = Called("start", RecorderStartErr(streamOK))
    /\ UNCHANGED <<appState, cfgVars, mgrVars, th, pl, clipVars, regVars,
                   artifacts, dlVars, obsVars, probe, setVars, disk>>

\* readLoop, under the lock: return when the recorder is not recording or
\* has no stream, else go and read
loopCheck ==
    /\ \E g \in Generations :
         /\ loops[g].check > 0
         /\ loops' = IF recording /\ stream THEN Moved(g, "check", "read")
                      ELSE Left(g, "check")
    /\ UNCHANGED <<appState, cfgVars, mgrVars, recording, th, pl, clipVars,
                   regVars, buffer, stream, artifacts, recLast, dlVars,
                   obsVars, probe, setVars, disk>>

\* readLoop, outside the lock: stream.Read() returns a block or an error
\* (continue); the stream it reads may have been stopped meanwhile
loopRead ==
    /\ \E g \in Generations, readOK \in BOOLEAN :
         /\ loops[g].read > 0
         /\ loops' = IF readOK THEN Moved(g, "read", "append")
                      ELSE Moved(g, "read", "check")
    /\ UNCHANGED <<appState, cfgVars, mgrVars, recording, th, pl, clipVars,
                   regVars, buffer, stream, artifacts, recLast, dlVars,
                   obsVars, probe, setVars, disk>>

\* (variant: the recording flag is checked again before the append)
loopAppend_checked ==
    /\ buffer < MaxBlocks
    /\ buffer' = IF recording THEN buffer + 1 ELSE buffer
    /\ \E g \in Generations :
         /\ loops[g].append > 0
         /\ loops' = Moved(g, "append", "check")
    /\ UNCHANGED <<appState, cfgVars, mgrVars, recording, th, pl, clipVars,
                   regVars, stream, artifacts, recLast, dlVars, obsVars,
                   probe, setVars, disk>>

\* readLoop, under the lock again: r.buffer = append(r.buffer, inputBuffer...)
loopAppend ==
    /\ buffer < MaxBlocks
    /\ buffer' = buffer + 1
    /\ \E g \in Generations :
         /\ loops[g].append > 0
         /\ loops' = Moved(g, "append", "check")
    /\ UNCHANGED <<appState, cfgVars, mgrVars, recording, th, pl, clipVars,
                   regVars, stream, artifacts, recLast, dlVars, obsVars,
                   probe, setVars, disk>>

\* Recorder.readLoop: one step of one of its goroutines
readLoop == loopCheck \/ loopRead \/ loopAppend

\* (variant: no check of the recording flag)
RecorderStop_unguarded ==
    /\ Len(artifacts) < MaxArtifacts
    /\ \E fileOK \in BOOLEAN :
         LET saved == buffer > 0 /\ fileOK IN
         /\ recording' = FALSE
         /\ stream' = FALSE
         /\ artifacts' = IF saved THEN Append(artifacts, buffer) ELSE artifacts
         /\ recLast' = Called("stop", IF saved THEN "" ELSE "no audio data recorded")
         /\ loops' = Retired
    /\ UNCHANGED <<appState, cfgVars, mgrVars, th, pl, clipVars, regVars,
                   buffer, dlVars, obsVars, probe, setVars, disk>>

\* Recorder.Stop, with saveToWav: the file holds the samples of the buffer
RecorderStop ==
    /\ recording => Len(artifacts) < MaxArtifacts
    /\ \E fileOK \in BOOLEAN :
         LET saved == buffer > 0 /\ fileOK IN
         /\ recording' = FALSE
         /\ stream' = IF recording THEN FALSE ELSE stream
         /\ artifacts' = IF recording /\ saved THEN Append(artifacts, buffer)
                         ELSE artifacts
         /\ recLast' = Called("stop", RecorderStopErr(saved))
         /\ loops' = IF recording THEN Retired ELSE loops
    /\ UNCHANGED <<appState, cfgVars, mgrVars, th, pl, clipVars, regVars,
                   buffer, dlVars, obsVars, probe, setVars, disk>>

\* what App.processRecording keeps of its run when the recorder is modelled
\* in detail: both engines succeed, the acts are recorded
Traced == [Coarse EXCEPT !.trace = TRUE]

\* StartRecording's a.audioRecorder.Start() with the recorder in detail:
\* the statement of StartRecorder and the call of RecorderStart in one step
StartRecorderFull(t) ==
    /\ th[t].pc = "sr_rec"
    /\ \E openOK \in BOOLEAN, startOK \in BOOLEAN :
         LET streamOK == openOK /\ startOK
             launched == ~recording /\ streamOK
         IN
         /\ launched => LoopCount < MaxLoops
         /\ recording' = RecorderStartFlag(streamOK)
         /\ buffer' = IF recording THEN buffer ELSE 0
         /\ stream' = IF ~recording /\ openOK THEN TRUE ELSE stream
         /\ loops' = IF launched THEN Launched ELSE loops
         /\ recLast' = Called("start", RecorderStartErr(streamOK))
         /\ IF RecorderStartErr(streamOK) = ""
              THEN /\ th' = [th EXCEPT ![t].pc = "ret", ![t].ret = "ok",
                                       ![t].told = Recording]
                   /\ Emit(Who(t))
              ELSE /\ th' = [th EXCEPT ![t].pc = "sr_rb_set",
                                       ![t].ret = RecorderStartErr(streamOK)]
                   /\ UNCHANGED noteVars
    /\ UNCHANGED <<appState, cfgVars, regVars, artifacts, dlVars, probe, setVars, disk,
                   watch, lastKey, mgrVars, pl, clipVars>>

\* (variant: saveToWav's check of the buffer comes before the flag is
\* cleared and the stream released)
processStopFull_checkFirst(p, d) ==
    /\ pl[p].pc = "stop"
    /\ recording => Len(artifacts) < MaxArtifacts
    /\ \E fileOK \in BOOLEAN, partial \in d.partial :
         LET saved == buffer > 0 /\ fileOK
             e == RecorderStopErr(saved)
         IN
         /\ recording' = IF buffer = 0 THEN recording ELSE FALSE
         /\ loops' = IF recording /\ buffer > 0 THEN Retired ELSE loops
         /\ stream' = IF recording /\ buffer > 0 THEN FALSE ELSE stream
         /\ artifacts' = IF recording /\ saved THEN Append(artifacts, buffer)
                         ELSE artifacts
         /\ recLast' = Called("stop", e)
         /\ IF e = ""
              THEN /\ Advance(p, d, [pl[p] EXCEPT !.pc = "transcribe", !.wav = TRUE],
                              <<Ev("stop", "ok", "", "")>>)
                   /\ disk' = disk \cup {WavFile(p)}
              ELSE /\ Abort(p, d, <<Ev("stop", "error", e, ""),
                                    Toast("error", "Failed to stop recording: ", e)>>)
                   /\ disk' = IF recording /\ buffer > 0 /\ partial
                                THEN disk \cup {Unfinished} ELSE disk
    /\ UNCHANGED <<appState, cfgVars, regVars, buffer, dlVars, probe, setVars,
                   obsVars, mgrVars, th, clipVars>>

\* processRecording's a.audioRecorder.Stop() with the recorder in detail:
\* the statement of processStop and the call of RecorderStop in one step
processStopFull(p, d) ==
    /\ pl[p].pc = "stop"
    /\ recording => Len(artifacts) < MaxArtifacts
    /\ \E fileOK \in BOOLEAN, partial \in d.partial :
         LET saved == buffer > 0 /\ fileOK
             e == RecorderStopErr(saved)
         IN
         /\ recording' = FALSE
         /\ stream' = IF recording THEN FALSE ELSE stream
         /\ loops' = IF recording THEN Retired ELSE loops
         /\ artifacts' = IF recording /\ saved THEN Append(artifacts, buffer)
                         ELSE artifacts
         /\ recLast' = Called("stop", e)
         /\ IF e = ""
              THEN /\ Advance(p, d, [pl[p] EXCEPT !.pc = "transcribe", !.wav = TRUE],
                              <<Ev("stop", "ok", "", "")>>)
                   /\ disk' = disk \cup {WavFile(p)}
              ELSE /\ Abort(p, d, <<Ev("stop", "error", e, ""),
                                    Toast("error", "Failed to stop recording: ", e)>>)
                   /\ disk' = IF recording /\ buffer > 0 /\ partial
                                THEN disk \cup {Unfinished} ELSE disk
    /\ UNCHANGED <<appState, cfgVars, regVars, buffer, dlVars, probe, setVars,
                   obsVars, mgrVars, th, clipVars>>

\* Recorder.GetDuration, in milliseconds: len(r.buffer) / sampleRate
GetDuration == (buffer * FramesPerBuffer * 1000) \div SampleRate

\* the playing time of a WAV file of the given number of blocks
WavDuration(blocks) == (blocks * FramesPerBuffer * 1000) \div SampleRate

RecInit ==
    /\ buffer = 0
    /\ stream = FALSE
    /\ artifacts = <<>>
    /\ recLast = NoCall
    /\ loops = NoLoops

\* ------------------------------------------------------------ downloads
Downloads == 1..MaxDownloads

\* pc "none": not called; "run": in DownloadModelWithContext; "clear": the
\* download has returned; "done": the call has returned
NoDownload == [pc |-> "none", cancelled |-> FALSE]

\* cancel(): the context of download i is cancelled
Cancelled(i) == [dl EXCEPT ![i].cancelled = TRUE]

\* App.DownloadModelByName, the first critical section: cancel the stored
\* handle, store the new one
DownloadStart(i) ==
    /\ dl[i].pc = "none"
    /\ dl' = [(IF downloadCancel # 0 THEN Cancelled(downloadCancel) ELSE dl)
                 EXCEPT ![i].pc = "run"]
    /\ downloadCancel' = i
    /\ UNCHANGED <<appState, cfgVars, mgrVars, recording, th, pl, clipVars,
                   regVars, recVars, obsVars, probe, setVars, disk>>

\* DownloadModelWithContext returns: finished, failed or cancelled
DownloadReturn(i) ==
    /\ dl[i].pc = "run"
    /\ dl' = [dl EXCEPT ![i].pc = "clear"]
    /\ UNCHANGED <<appState, cfgVars, mgrVars, recording, th, pl, clipVars,
                   regVars, recVars, downloadCancel, obsVars, probe, setVars, disk>>

\* the second critical section: a.downloadCancel = nil
DownloadClear(i) ==
    /\ dl[i].pc = "clear"
    /\ downloadCancel' = 0
    /\ dl' = [dl EXCEPT ![i].pc = "done"]
    /\ UNCHANGED <<appState, cfgVars, mgrVars, recording, th, pl, clipVars,
                   regVars, recVars, obsVars, probe, setVars, disk>>

DownloadModelByName(i) == DownloadStart(i) \/ DownloadReturn(i) \/ DownloadClear(i)

\* App.CancelDownload
CancelDownload ==
    /\ downloadCancel # 0
    /\ dl' = Cancelled(downloadCancel)
    /\ downloadCancel' = 0
    /\ UNCHANGED <<appState, cfgVars, mgrVars, recording, th, pl, clipVars,
                   regVars, recVars, obsVars, probe, setVars, disk>>

DlInit ==
    /\ downloadCancel = 0
    /\ dl = [i \in Downloads |-> NoDownload]

\* ----------------------------------------------------- hotkey bindings
\* A hotkey string is held as the parts strings.Split(s, "+") yields;
\* the empty string yields one empty part.
EmptyString == <<"">>
DefaultHandsFree == <<"cmd", "shift", "space">>
DefaultPushToTalk == <<"cmd", "shift", "p">>

\* the strings a reconfiguration may carry
HotkeyStrings ==
    {DefaultHandsFree, DefaultPushToTalk, <<"Ctrl", "Alt", "V">>,
     <<"v">>, <<"hyper", "v">>, <<"cmd", "f1">>, EmptyString}

\* strings.ToLower on one part
ToLower(part) ==
    CASE part = "Ctrl" -> "ctrl"
      [] part = "Alt" -> "alt"
      [] part = "V" -> "v"
      [] part = "Esc" -> "esc"
      [] part = "OPT" -> "opt"
      [] OTHER -> part

\* the switch of parseHotkey; "?" = unknown modifier
ModOf(part) ==
    CASE part \in {"cmd", "command", "super"} -> "ModCmd"
      [] part \in {"ctrl", "control"} -> "ModCtrl"
      [] part = "shift" -> "ModShift"
      [] part \in {"alt", "option", "opt"} -> "ModOption"
      [] OTHER -> "?"

Letters == {"a", "b", "c", "d", "e", "f", "g", "h", "i", "j", "k", "l", "m",
            "n", "o", "p", "q", "r", "s", "t", "u", "v", "w", "x", "y", "z"}
Digits == {"0", "1", "2", "3", "4", "5", "6", "7", "8", "9"}

\* parseKey: the keyMap lookup; "?" = unknown key
parseKey(keyStr) ==
    CASE keyStr \in Letters \cup Digits -> keyStr
      [] keyStr = "space" -> "KeySpace"
      [] keyStr \in {"return", "enter"} -> "KeyReturn"
      [] keyStr \in {"escape", "esc"} -> "KeyEscape"
      [] keyStr = "tab" -> "KeyTab"
      [] OTHER -> "?"

\* (variant: no check of the number of parts)
parseHotkey_anyLength(hotkeyStr) ==
    LET parts == [i \in 1..Len(hotkeyStr) |-> ToLower(hotkeyStr[i])]
        n == Len(parts)
    IN IF \E i \in 1..(n - 1) : ModOf(parts[i]) = "?"
              THEN Err("unknown modifier")
       ELSE IF parseKey(parts[n]) = "?" THEN Err("unknown key")
       ELSE Ok([mods |-> {ModOf(parts[i]) : i \in 1..(n - 1)},
                key |-> parseKey(parts[n])])

\* parseHotkey: the key combination (modifiers as the OS sees them, or-ed
\* together), or an error
parseHotkey(hotkeyStr) ==
    LET parts == [i \in 1..Len(hotkeyStr) |-> ToLower(hotkeyStr[i])]
        n == Len(parts)
    IN IF n < 2 THEN Err("invalid hotkey format")
       ELSE IF \E i \in 1..(n - 1) : ModOf(parts[i]) = "?"
              THEN Err("unknown modifier")
       ELSE IF parseKey(parts[n]) = "?" THEN Err("unknown key")
       ELSE Ok([mods |-> {ModOf(parts[i]) : i \in 1..(n - 1)},
                key |-> parseKey(parts[n])])

\* a *hotkey.Hotkey held by the Manager: its combination and whether it is
\* registered with the OS; NoKey = nil
NoKey == [combo |-> [mods |-> {}, key |-> "nil"], reg |-> FALSE]
NewKey(combo, registered) == [combo |-> combo, reg |-> registered]

\* hk.Unregister(): the OS table without hk
Unregistered(os, hk) == IF hk.reg THEN os \ {hk.combo} ELSE os

\* hk.Register() succeeds when the OS accepts the combination (osOK) and
\* the combination is not taken already
Registers(os, combo, osOK) == osOK /\ combo \notin os

\* the binding that is in effect through hk, "none" if there is none
InEffect(hk) == IF hk.reg THEN <<hk.combo>> ELSE <<>>
Bindings == <<InEffect(handsFreeHK), InEffect(pushToTalkHK)>>

\* (variant: a hands-free binding that does not register ends the
\* registration)
StartResult_transactional(handsFreeStr, pttStr, okHF, okPTT) ==
    LET pHF == parseHotkey(handsFreeStr)
        pPTT == parseHotkey(pttStr)
        hf == IF handsFreeStr # EmptyString /\ ~pHF.err
                THEN NewKey(pHF.val, Registers({}, pHF.val, okHF))
                ELSE NoKey
        os1 == IF hf.reg THEN {hf.combo} ELSE {}
        ptt == IF pttStr # EmptyString /\ ~pPTT.err /\ (hf = NoKey \/ hf.reg)
                 THEN NewKey(pPTT.val, Registers(os1, pPTT.val, okPTT))
                 ELSE NoKey
    IN [hf |-> hf, ptt |-> ptt,
        os |-> IF ptt.reg THEN os1 \cup {ptt.combo} ELSE os1, err |-> ""]

\* Manager.Start, the initial registration: each binding on its own,
\* failures only printed
StartResult(handsFreeStr, pttStr, okHF, okPTT) ==
    LET pHF == parseHotkey(handsFreeStr)
        pPTT == parseHotkey(pttStr)
        hf == IF handsFreeStr # EmptyString /\ ~pHF.err
                THEN NewKey(pHF.val, Registers({}, pHF.val, okHF))
                ELSE NoKey
        os1 == IF hf.reg THEN {hf.combo} ELSE {}
        ptt == IF pttStr # EmptyString /\ ~pPTT.err
                 THEN NewKey(pPTT.val, Registers(os1, pPTT.val, okPTT))
                 ELSE NoKey
    IN [hf |-> hf, ptt |-> ptt,
        os |-> IF ptt.reg THEN os1 \cup {ptt.combo} ELSE os1, err |-> ""]

\* (variant: a push-to-talk failure leaves the new hands-free binding)
handleReconfigureResult_noCleanup(handsFreeStr, pttStr, okHF, okPTT) ==
    LET os0 == Unregistered(Unregistered(osRegistered, handsFreeHK), pushToTalkHK)
        pHF == parseHotkey(handsFreeStr)
        pPTT == parseHotkey(pttStr)
        regHF == ~pHF.err /\ Registers(os0, pHF.val, okHF)
        hf1 == IF handsFreeStr = EmptyString THEN NoKey ELSE NewKey(pHF.val, regHF)
        os1 == IF hf1.reg THEN os0 \cup {hf1.combo} ELSE os0
        regPTT == ~pPTT.err /\ Registers(os1, pPTT.val, okPTT)
    IN IF handsFreeStr # EmptyString /\ pHF.err
         THEN [hf |-> NoKey, ptt |-> NoKey, os |-> os0,
               err |-> "invalid hands-free hotkey"]
       ELSE IF handsFreeStr # EmptyString /\ ~regHF
         THEN [hf |-> hf1, ptt |-> NoKey, os |-> os0,
               err |-> "failed to register hands-free"]
       ELSE IF pttStr = EmptyString
         THEN [hf |-> hf1, ptt |-> NoKey, os |-> os1, err |-> ""]
       ELSE IF pPTT.err
         THEN [hf |-> hf1, ptt |-> NoKey, os |-> os1,
               err |-> "invalid ptt hotkey"]
       ELSE IF ~regPTT
         THEN [hf |-> hf1, ptt |-> NewKey(pPTT.val, FALSE), os |-> os1,
               err |-> "failed to register ptt"]
       ELSE [hf |-> hf1, ptt |-> NewKey(pPTT.val, TRUE),
             os |-> os1 \cup {pPTT.val}, err |-> ""]

\* Manager.handleReconfigure: what it leaves in the Manager and in the OS
\* table, and the error it returns ("" = nil)
handleReconfigureResult(handsFreeStr, pttStr, okHF, okPTT) ==
    LET os0 == Unregistered(Unregistered(osRegistered, handsFreeHK), pushToTalkHK)
        pHF == parseHotkey(handsFreeStr)
        pPTT == parseHotkey(pttStr)
        regHF == ~pHF.err /\ Registers(os0, pHF.val, okHF)
        hf1 == IF handsFreeStr = EmptyString THEN NoKey ELSE NewKey(pHF.val, regHF)
        os1 == IF hf1.reg THEN os0 \cup {hf1.combo} ELSE os0
        regPTT == ~pPTT.err /\ Registers(os1, pPTT.val, okPTT)
    IN IF handsFreeStr # EmptyString /\ pHF.err
         THEN [hf |-> NoKey, ptt |-> NoKey, os |-> os0,
               err |-> "invalid hands-free hotkey"]
       ELSE IF handsFreeStr # EmptyString /\ ~regHF
         THEN [hf |-> hf1, ptt |-> NoKey, os |-> os0,
               err |-> "failed to register hands-free"]
       ELSE IF pttStr = EmptyString
         THEN [hf |-> hf1, ptt |-> NoKey, os |-> os1, err |-> ""]
       ELSE IF pPTT.err
         THEN [hf |-> NoKey, ptt |-> NoKey, os |-> Unregistered(os1, hf1),
               err |-> "invalid ptt hotkey"]
       ELSE IF ~regPTT
         THEN [hf |-> NoKey, ptt |-> NewKey(pPTT.val, FALSE),
               os |-> Unregistered(os1, hf1),
               err |-> "failed to register ptt"]
       ELSE [hf |-> hf1, ptt |-> NewKey(pPTT.val, TRUE),
             os |-> os1 \cup {pPTT.val}, err |-> ""]

\* no request: the state of reconfigCh and of the caller of Update
\* st: "none", "offered" (the caller is in its select), "done", "timeout";
\* inCh: the request is there for the event loop to receive;
\* pre: the bindings in effect when Update was called
NoRequest == [st |-> "none", inCh |-> FALSE, hf |-> EmptyString,
              ptt |-> EmptyString, err |-> "", pre |-> <<<<>>, <<>>>>]

\* Manager.Update with strings of the given set: the request is offered
\* to the event loop
UpdateTo(strings) ==
    /\ reconfigCh.st # "offered"
    /\ \E handsFreeStr \in strings, pttStr \in strings :
         reconfigCh' = [st |-> "offered", inCh |-> TRUE, hf |-> handsFreeStr,
                        ptt |-> pttStr, err |-> "", pre |-> Bindings]
    /\ UNCHANGED <<appState, cfgVars, mgrVars, recording, th, pl, clipVars,
                   handsFreeHK, pushToTalkHK, osRegistered, recVars, dlVars,
                   obsVars, probe, setVars, disk>>

\* Manager.Update
Update == UpdateTo(HotkeyStrings)

\* (variant: the bindings are swapped by the goroutine that calls Update)
handleReconfigure_byCaller ==
    /\ reconfigCh.inCh
    /\ \E okHF \in BOOLEAN, okPTT \in BOOLEAN :
         LET r == handleReconfigureResult(reconfigCh.hf, reconfigCh.ptt, okHF, okPTT) IN
         /\ handsFreeHK' = r.hf
         /\ pushToTalkHK' = r.ptt
         /\ osRegistered' = r.os
         /\ reconfigCh' = IF reconfigCh.st = "offered"
                             THEN [reconfigCh EXCEPT !.st = "done", !.inCh = FALSE,
                                                     !.err = r.err]
                             ELSE [reconfigCh EXCEPT !.inCh = FALSE]
    /\ UNCHANGED <<appState, cfgVars, mgrVars, recording, th, pl, clipVars,
                   recVars, dlVars, obsVars, probe, setVars, disk>>

\* the event loop receives the request, runs handleReconfigure and sends
\* the result on req.result (buffered, one place): a caller that is still
\* waiting returns it, a caller that has returned never reads it
handleReconfigure ==
    /\ th[HK].pc = "idle"
    /\ reconfigCh.inCh
    /\ \E okHF \in BOOLEAN, okPTT \in BOOLEAN :
         LET r == handleReconfigureResult(reconfigCh.hf, reconfigCh.ptt, okHF, okPTT) IN
         /\ handsFreeHK' = r.hf
         /\ pushToTalkHK' = r.ptt
         /\ osRegistered' = r.os
         /\ reconfigCh' = IF reconfigCh.st = "offered"
                             THEN [reconfigCh EXCEPT !.st = "done", !.inCh = FALSE,
                                                     !.err = r.err]
                             ELSE [reconfigCh EXCEPT !.inCh = FALSE]
    /\ UNCHANGED <<appState, cfgVars, mgrVars, recording, th, pl, clipVars,
                   recVars, dlVars, obsVars, probe, setVars, disk>>

\* (variant: a buffered channel, on which the request stays after the
\* caller has given up)
UpdateTimeout_buffered ==
    /\ reconfigCh.st = "offered"
    /\ reconfigCh' = [reconfigCh EXCEPT !.st = "timeout",
                         !.err = "timeout waiting for hotkey update"]
    /\ UNCHANGED <<appState, cfgVars, mgrVars, recording, th, pl, clipVars,
                   handsFreeHK, pushToTalkHK, osRegistered, recVars, dlVars,
                   obsVars, probe, setVars, disk>>

\* Manager.Update: time.After fires first; the send on the unbuffered
\* channel never happens
UpdateTimeout ==
    /\ reconfigCh.st = "offered"
    /\ reconfigCh' = [reconfigCh EXCEPT !.st = "timeout", !.inCh = FALSE,
                         !.err = "timeout waiting for hotkey update"]
    /\ UNCHANGED <<appState, cfgVars, mgrVars, recording, th, pl, clipVars,
                   handsFreeHK, pushToTalkHK, osRegistered, recVars, dlVars,
                   obsVars, probe, setVars, disk>>

\* no call observed yet
NoProbe == [op |-> "none", in |-> <<>>, out |-> <<>>]

\* Manager.Start, called once: running = true, the initial registration on
\* the event-loop goroutine, return nil
Start ==
    /\ ~running
    /\ running' = TRUE
    /\ \E handsFreeStr \in HotkeyStrings, pttStr \in HotkeyStrings,
          okHF \in BOOLEAN, okPTT \in BOOLEAN :
         LET r == StartResult(handsFreeStr, pttStr, okHF, okPTT) IN
         /\ handsFreeHK' = r.hf
         /\ pushToTalkHK' = r.ptt
         /\ osRegistered' = r.os
         /\ probe' = [op |-> "Start",
                      in |-> [hf |-> handsFreeStr, ptt |-> pttStr,
                              okHF |-> okHF, okPTT |-> okPTT],
                      out |-> r.err]
    /\ UNCHANGED <<appState, cfgVars, mState, activeTrigger, mu, recording, th,
                   pl, clipVars, reconfigCh, recVars, dlVars, obsVars, disk,
                   setVars>>

\* the strings parseHotkey is tried on: up to MaxTokens parts
Tokens == {"cmd", "Ctrl", "shift", "OPT", "hyper", "", "v", "V", "space",
           "Esc", "9", "f1"}
HotkeyInputs == UNION {[1..n -> Tokens] : n \in 1..MaxTokens}

\* a call of parseHotkey
parseHotkeyCall ==
    /\ probe.op = "none"
    /\ \E hotkeyStr \in HotkeyInputs :
         probe' = [op |-> "parseHotkey", in |-> hotkeyStr,
                   out |-> parseHotkey(hotkeyStr)]
    /\ UNCHANGED <<appState, cfgVars, mgrVars, recording, th, pl, clipVars,
                   regVars, recVars, dlVars, obsVars, disk, setVars>>

\* ------------------------------------------------- the hotkey settings
\* Config.HandsFreeHotkey and Config.PushToTalkHotkey as held in memory
\* (hf, ptt) and as last written by Config.Save (file)
DefaultConfig ==
    [hf |-> DefaultHandsFree, ptt |-> DefaultPushToTalk,
     file |-> <<DefaultHandsFree, DefaultPushToTalk>>]

\* Config.GetHandsFreeHotkey / GetPushToTalkHotkey on the values c: the
\* default for an empty string
GetOf(c, which) ==
    IF c[which] # EmptyString THEN c[which]
    ELSE IF which = "hf" THEN DefaultHandsFree ELSE DefaultPushToTalk

GetHandsFreeHotkey == GetOf(config, "hf")
GetPushToTalkHotkey == GetOf(config, "ptt")

\* the strings the settings window may pass
SetStrings ==
    {DefaultHandsFree, DefaultPushToTalk, <<"Ctrl", "Alt", "V">>, <<"v">>,
     EmptyString}

\* the goroutine serving SetHandsFreeHotkey / SetPushToTalkHotkey
\* pc: "idle", "reload" (before the first reloadHotkeys), "wait" (in it),
\* "restore" (before the second), "rewait" (in it), "ret";
\* which: the field the call sets; old: the local of that name;
\* err: the error of the first reloadHotkeys; ret: what the call returned;
\* cfg, pre: the Config and the bindings in effect when the call was made
NoSet == [pc |-> "idle", which |-> "none", old |-> EmptyString, err |-> "",
          ret |-> "none", cfg |-> DefaultConfig, pre |-> <<<<>>, <<>>>>]

SetInit ==
    /\ config = DefaultConfig
    /\ setter = NoSet

\* old := a.config.Get...Hotkey(); a.config.Set...Hotkey(hotkeyStr)
SetBegin(which) ==
    /\ setter.pc = "idle"
    /\ \E hotkeyStr \in SetStrings :
         config' = [config EXCEPT ![which] = hotkeyStr]
    /\ setter' = [NoSet EXCEPT !.pc = "reload", !.which = which,
                               !.old = GetOf(config, which),
                               !.cfg = config, !.pre = Bindings]
    /\ UNCHANGED <<appState, cfgVars, mgrVars, recording, th, pl, clipVars,
                   regVars, recVars, dlVars, obsVars, probe, disk>>

\* App.reloadHotkeys: Manager.Update with the two configured strings
reloadHotkeys(which) ==
    /\ setter.which = which
    /\ setter.pc \in {"reload", "restore"}
    /\ reconfigCh.st # "offered"
    /\ reconfigCh' = [st |-> "offered", inCh |-> TRUE, hf |-> GetHandsFreeHotkey,
                      ptt |-> GetPushToTalkHotkey, err |-> "", pre |-> Bindings]
    /\ setter' = [setter EXCEPT !.pc = IF setter.pc = "reload" THEN "wait"
                                       ELSE "rewait"]
    /\ UNCHANGED <<appState, cfgVars, mgrVars, recording, th, pl, clipVars,
                   handsFreeHK, pushToTalkHK, osRegistered, recVars, dlVars,
                   obsVars, probe, disk, config>>

\* (variant: the configured value is left as set when the update fails)
SetAfterReload_noRevert(which) ==
    /\ setter.which = which
    /\ setter.pc = "wait"
    /\ reconfigCh.st \in {"done", "timeout"}
    /\ IF reconfigCh.err # ""
         THEN /\ UNCHANGED config
              /\ setter' = [setter EXCEPT !.pc = "restore", !.err = reconfigCh.err]
         ELSE \E saveOK \in BOOLEAN :
                /\ config' = IF saveOK
                               THEN [config EXCEPT !.file = <<config.hf, config.ptt>>]
                               ELSE config
                /\ setter' = [setter EXCEPT !.pc = "ret",
                                 !.ret = IF saveOK THEN "" ELSE "failed to save config"]
    /\ UNCHANGED <<appState, cfgVars, mgrVars, recording, th, pl, clipVars,
                   regVars, recVars, dlVars, obsVars, probe, disk>>

\* the first reloadHotkeys has returned: on an error the revert of the
\* configured value, else return a.config.Save()
SetAfterReload(which) ==
    /\ setter.which = which
    /\ setter.pc = "wait"
    /\ reconfigCh.st \in {"done", "timeout"}
    /\ IF reconfigCh.err # ""
         THEN /\ config' = [config EXCEPT ![which] = setter.old]
              /\ setter' = [setter EXCEPT !.pc = "restore", !.err = reconfigCh.err]
         ELSE \E saveOK \in BOOLEAN :
                /\ config' = IF saveOK
                               THEN [config EXCEPT !.file = <<config.hf, config.ptt>>]
                               ELSE config
                /\ setter' = [setter EXCEPT !.pc = "ret",
                                 !.ret = IF saveOK THEN "" ELSE "failed to save config"]
    /\ UNCHANGED <<appState, cfgVars, mgrVars, recording, th, pl, clipVars,
                   regVars, recVars, dlVars, obsVars, probe, disk>>

\* the second reloadHotkeys has returned, its result is dropped: return err
SetReturn(which) ==
    /\ setter.which = which
    /\ setter.pc = "rewait"
    /\ reconfigCh.st \in {"done", "timeout"}
    /\ setter' = [setter EXCEPT !.pc = "ret", !.ret = setter.err]
    /\ UNCHANGED <<appState, cfgVars, mgrVars, recording, th, pl, clipVars,
                   regVars, recVars, dlVars, obsVars, probe, disk, config>>

\* the goroutine is free for the next call
SetFinish(which) ==
    /\ setter.which = which
    /\ setter.pc = "ret"
    /\ setter' = NoSet
    /\ UNCHANGED <<appState, cfgVars, mgrVars, recording, th, pl, clipVars,
                   regVars, recVars, dlVars, obsVars, probe, disk, config>>

SetHotkeyTo(which) ==
    \/ SetBegin(which)
    \/ reloadHotkeys(which)
    \/ SetAfterReload(which)
    \/ SetReturn(which)
    \/ SetFinish(which)

\* App.SetHandsFreeHotkey, App.SetPushToTalkHotkey
SetHandsFreeHotkey == SetHotkeyTo("hf")
SetPushToTalkHotkey == SetHotkeyTo("ptt")

\* ----------------------------------------------------------------- system
\* NewApp, NewManager, NewRecorder and App.startup; the history and the
\* injection service are nil when their initialisation failed
MachineInit ==
    /\ appState = Idle
    /\ modelReady = FALSE
    /\ historyOn \in BOOLEAN
    /\ injectionOn \in BOOLEAN
    /\ mState = Idle
    /\ activeTrigger = TriggerNone
    /\ running = TRUE
    /\ recording = FALSE
    /\ th = [t \in Threads |-> ThreadIdle]
    /\ pl = [p \in Procs |-> NoPipeline]
    /\ clipQueue = {}
    /\ clipboard = ""
    /\ mu = "free"
    /\ disk = {}
    /\ SetInit

\* Manager.Start with the configured hotkeys
RegInit(okHF, okPTT) ==
    LET r == StartResult(DefaultHandsFree, DefaultPushToTalk, okHF, okPTT) IN
    /\ handsFreeHK = r.hf
    /\ pushToTalkHK = r.ptt
    /\ osRegistered = r.os
    /\ reconfigCh = NoRequest

\* whether observations are recorded, and nothing observed yet
ObsInit(watched) ==
    /\ watch = watched
    /\ lastKey = [key |-> "none", n |-> 0, on |-> TRUE]
    /\ pendingNotes = <<>>
    /\ lateNote = FALSE
    /\ probe = NoProbe

\* the usual start: both hotkeys registered, nothing recorded
Init ==
    /\ MachineInit
    /\ RegInit(TRUE, TRUE)
    /\ RecInit
    /\ DlInit
    /\ ObsInit("off")

\* startup in which neither optional service could be initialised: the
\* pipeline then touches nothing but the state and the recorder
InitBare == Init /\ ~historyOn /\ ~injectionOn

\* the select of the event loop: a key event of a registered hotkey
HotkeyEvent ==
    \/ handsFreeHK.reg /\ handleHandsFree
    \/ pushToTalkHK.reg /\ (handlePushToTalkDown \/ handlePushToTalkUp)

FrontendCall == ToggleRecording \/ CallStartRecording \/ CallStopRecording

HotkeyStep ==
    \/ onHotkeyPressed
    \/ StartRecording(HK)
    \/ StopRecording(HK, Procs)
    \/ Finish(HK)

FrontendStep ==
    \/ StartRecording(UI)
    \/ StopRecording(UI, Procs)
    \/ Finish(UI)

PipelineStep == \E p \in Procs : processRecording(p, Coarse)

\* every goroutine, every interleaving
Next ==
    \/ HotkeyEvent
    \/ FrontendCall
    \/ HotkeyStep
    \/ FrontendStep
    \/ PipelineStep
    \/ checkModelStatus
    \/ SetWhisperModel

Spec == InitBare /\ [][Next]_vars

\* one pipeline run at a time, started from the frontend, in full detail
PipeNext ==
    \/ ToggleRecording
    \/ StartRecording(UI)
    \/ StopRecording(UI, {1})
    \/ Finish(UI)
    \/ processRecording(1, Detailed)
    \/ deliverClipboard
    \/ checkModelStatus

PipeSpec == Init /\ [][PipeNext]_vars

\* the event loop alone with the pipelines it launches, observed
WatchedInit ==
    /\ MachineInit /\ ~historyOn /\ ~injectionOn
    /\ RegInit(TRUE, TRUE)
    /\ RecInit
    /\ DlInit
    /\ ObsInit("all")

KeyNext ==
    \/ HotkeyEvent
    \/ onHotkeyPressed
    \/ StartRecording(HK)
    \/ StopRecording(HK, {1})
    \/ Finish(HK)
    \/ processRecording(1, Detailed)
    \/ checkModelStatus
    \/ SetWhisperModel

KeySpec == WatchedInit /\ [][KeyNext]_vars

\* reconfiguration of the hotkeys: one caller of Update and the event loop
ReconfigInit ==
    /\ MachineInit /\ ~historyOn /\ ~injectionOn
    /\ \E okHF \in BOOLEAN, okPTT \in BOOLEAN : RegInit(okHF, okPTT)
    /\ RecInit
    /\ DlInit
    /\ ObsInit("off")

ReconfigNext == Update \/ handleReconfigure \/ UpdateTimeout

ReconfigSpec == ReconfigInit /\ [][ReconfigNext]_vars

\* the recorder on its own, called in any order
RecorderNext == RecorderStart \/ readLoop \/ RecorderStop

RecorderSpec == InitBare /\ [][RecorderNext]_vars

\* MaxDownloads calls of DownloadModelByName and CancelDownload
DownloadNext == CancelDownload \/ \E i \in Downloads : DownloadModelByName(i)

DownloadSpec == InitBare /\ [][DownloadNext]_vars

\* the Manager from NewManager on: Start, then one reconfiguration (the
\* App calls Update only after Start)
BindInit ==
    /\ appState = Idle
    /\ modelReady = FALSE
    /\ historyOn = FALSE
    /\ injectionOn = FALSE
    /\ mState = Idle
    /\ activeTrigger = TriggerNone
    /\ running = FALSE
    /\ recording = FALSE
    /\ th = [t \in Threads |-> ThreadIdle]
    /\ pl = [p \in Procs |-> NoPipeline]
    /\ clipQueue = {}
    /\ clipboard = ""
    /\ mu = "free"
    /\ disk = {}
    /\ SetInit
    /\ handsFreeHK = NoKey
    /\ pushToTalkHK = NoKey
    /\ osRegistered = {}
    /\ reconfigCh = NoRequest
    /\ RecInit
    /\ DlInit
    /\ ObsInit("off")

BindNext ==
    \/ Start
    \/ running /\ reconfigCh.st = "none" /\ Update
    \/ running /\ handleReconfigure
    \/ running /\ UpdateTimeout

BindSpec == BindInit /\ [][BindNext]_vars

\* parseHotkey on its own
ParseNext == parseHotkeyCall

ParseSpec == InitBare /\ [][ParseNext]_vars

\* the event loop and the frontend's ToggleRecording, one pipeline at a
\* time; the key events are recorded
PressInit ==
    /\ MachineInit /\ ~historyOn /\ ~injectionOn
    /\ RegInit(TRUE, TRUE)
    /\ RecInit
    /\ DlInit
    /\ ObsInit("keys")

PressNext ==
    \/ HotkeyEvent
    \/ onHotkeyPressed
    \/ StartRecording(HK)
    \/ StopRecording(HK, {1})
    \/ Finish(HK)
    \/ ToggleRecording
    \/ StartRecording(UI)
    \/ StopRecording(UI, {1})
    \/ Finish(UI)
    \/ processRecording(1, Coarse)
    \/ checkModelStatus

PressSpec == PressInit /\ [][PressNext]_vars

\* the event loop with everything it serves: key events, the callback and
\* what the callback calls, and reconfiguration requests
LoopStrings == {DefaultHandsFree, <<"Ctrl", "Alt", "V">>, <<"v">>}

LoopNext ==
    \/ HotkeyEvent
    \/ onHotkeyPressed
    \/ StartRecording(HK)
    \/ StopRecording(HK, {1})
    \/ Finish(HK)
    \/ processRecording(1, Coarse)
    \/ UpdateTo(LoopStrings)
    \/ handleReconfigure
    \/ UpdateTimeout
    \/ checkModelStatus

LoopSpec == PressInit /\ [][LoopNext]_vars

\* the event loop as in LoopSpec, and App.shutdown's call of Manager.Stop
StopNext ==
    \/ HotkeyEvent
    \/ onHotkeyPressed
    \/ StartRecording(HK)
    \/ StopRecording(HK, {1})
    \/ Finish(HK)
    \/ processRecording(1, Coarse)
    \/ UpdateTo(LoopStrings)
    \/ handleReconfigure
    \/ UpdateTimeout
    \/ checkModelStatus
    \/ Stop

StopSpec == PressInit /\ [][StopNext]_vars

\* the frontend's ToggleRecording, the pipeline it launches and the
\* recorder in detail, capture loops included
CaptureNext ==
    \/ ToggleRecording
    \/ StartCheck(UI) \/ StartSetState(UI) \/ StartSetManager(UI)
    \/ StartRecorderFull(UI)
    \/ StartRollbackState(UI) \/ StartRollbackManager(UI)
    \/ StopRecording(UI, {1})
    \/ Finish(UI)
    \/ processStopFull(1, Traced)
    \/ processTranscribe(1, Traced) \/ processRefine(1, Traced)
    \/ processDeliver(1, Traced)
    \/ resetToIdle(1, Traced) \/ processEmit(1, Traced) \/ processExit(1)
    \/ readLoop
    \/ checkModelStatus

CaptureSpec == InitBare /\ [][CaptureNext]_vars

\* the settings window changes the hotkeys, one call at a time, while the
\* event loop serves or misses the requests
SetNext ==
    \/ SetHandsFreeHotkey
    \/ SetPushToTalkHotkey
    \/ handleReconfigure
    \/ UpdateTimeout

SetSpec == ReconfigInit /\ [][SetNext]_vars

\* ================================================================= claims
\* no App operation is between its first and its last statement
Quiescent == \A t \in Threads : th[t].pc \in {"idle", "ret"}

\* C1: the Manager's activeTrigger is non-None only while the Manager's
\* state is Recording (it is reset on every transition out of Recording,
\* SetState(Processing) included).
C1_TriggerOnlyWhileRecording ==
    activeTrigger # TriggerNone => mState = Recording

\* C2: whenever no start or stop operation is mid-execution, state Recording
\* (App.state and Manager.state) implies that the recorder is recording.
C2_RecordingImpliesCapture ==
    (Quiescent /\ appState = Recording /\ mState = Recording) => recording

\* C3: StartRecording called while the state is Processing is rejected
\* without side effects: it returns an error from its first check and
\* executes none of the statements that follow.
C3_StartRejectedInProcessing ==
    [][\A t \in Threads :
         (/\ th[t].pc = "sr_check" /\ th'[t].pc # "sr_check"
          /\ appState = Processing /\ mState = Processing)
         => (/\ th'[t].pc = "ret" /\ th'[t].ret # "ok"
             /\ UNCHANGED <<appState, mState, recording, pl>>)]_vars

\* C4: at most one processRecording pipeline is running at any time.
C4_SinglePipeline == Cardinality(ActivePipelines) <= 1

\* ------------------------------------------------- claims about one run
\* the goroutines that exist keep running; nothing obliges the user to
\* press a key or the model to become ready
FairPipeSpec ==
    /\ PipeSpec
    /\ WF_vars(processRecording(1, Detailed))
    /\ WF_vars(StartRecording(UI) \/ StopRecording(UI, {1}) \/ Finish(UI))
    /\ WF_vars(deliverClipboard)

\* the run has performed all its acts and is about to return
Done(p) == pl[p].pc = "exit"

Acts(p, kind) == SelectSeq(pl[p].log, LAMBDA e : e.k = kind)
Emitted(p, event) ==
    SelectSeq(pl[p].log, LAMBDA e : e.k = "emit" /\ e.a = event)
Last(seq) == seq[Len(seq)]

\* the acts of resetToIdle, in the order the code performs them
ResetActs == <<Ev("state", Idle, "", ""), Ev("manager", Idle, "", ""),
               Ev("emit", "state-changed", Idle, "")>>

\* the run ended by putting the state back to Idle, and by nothing after it
EndsWithReset(p) ==
    /\ Len(pl[p].log) >= 3
    /\ SubSeq(pl[p].log, Len(pl[p].log) - 2, Len(pl[p].log)) = ResetActs

\* C5: every entry into Processing is eventually followed by a return to
\* Idle: App.state and Manager.state both Idle and activeTrigger None.
C5_ProcessingLeadsToIdle ==
    (appState = Processing \/ mState = Processing)
       ~> (appState = Idle /\ mState = Idle /\ activeTrigger = TriggerNone)

\* C6: when every transcription call returns empty text without error, the
\* run makes exactly 3 calls, then emits the one "No audio was captured"
\* warning, returns to Idle, and calls neither refinement nor history nor
\* delivery.
AllEmpty(p) ==
    /\ Acts(p, "transcribe") # <<>>
    /\ \A i \in 1..Len(Acts(p, "transcribe")) :
          Acts(p, "transcribe")[i] = Ev("transcribe", "ok", "", "")

C6_EmptyThreeTimes ==
    \A p \in Procs :
       (Done(p) /\ AllEmpty(p)) =>
          pl[p].log =
             <<Ev("stop", "ok", "", ""),
               Ev("transcribe", "ok", "", ""),
               Ev("transcribe", "ok", "", ""),
               Ev("transcribe", "ok", "", ""),
               Toast("warning",
                  "No audio was captured. Please try speaking louder or check your microphone.", "")>>
             \o ResetActs

C6_Witness == \E p \in Procs : Done(p) /\ AllEmpty(p)

\* C7: a transcription equal to one of the three blank-audio markers ends the
\* run with a warning and Idle, without refinement; any other non-empty
\* transcription, one that contains a marker included, is what refinement
\* is called with.
C7_ExactMarkerMatch ==
    \A p \in Procs :
       (Done(p) /\ Acts(p, "transcribe") # <<>>
                /\ Last(Acts(p, "transcribe")).a = "ok"
                /\ Last(Acts(p, "transcribe")).b # "") =>
          LET text == Last(Acts(p, "transcribe")).b IN
          IF text \in BlankMarkers
            THEN /\ Acts(p, "refine") = <<>>
                 /\ Len(Acts(p, "toast")) = 1
                 /\ Acts(p, "toast")[1].a = "warning"
                 /\ EndsWithReset(p)
            ELSE /\ Len(Acts(p, "refine")) = 1
                 /\ Acts(p, "refine")[1].b = text

C7_Witness ==
    \E p \in Procs :
       /\ Done(p)
       /\ Acts(p, "transcribe") # <<>>
       /\ Last(Acts(p, "transcribe")) = Ev("transcribe", "ok", "[BLANK_AUDIO] hello", "")
       /\ Acts(p, "refine") # <<>>

\* C8: when refinement returns an error, the run emits an error toast that
\* carries the error's message, returns to Idle, and delivers nothing: no
\* clipboard write, no injection, no history entry, no processing-complete.
RefineFailed(p) == Acts(p, "refine") # <<>> /\ Last(Acts(p, "refine")).a = "error"

C8_RefineErrorDeliversNothing ==
    \A p \in Procs :
       (Done(p) /\ RefineFailed(p)) =>
          /\ Acts(p, "toast") =
                <<Toast("error", "Gemini error: ", Last(Acts(p, "refine")).c)>>
          /\ Acts(p, "save") = <<>>
          /\ Acts(p, "deliver") = <<>>
          /\ Emitted(p, "processing-complete") = <<>>
          /\ EndsWithReset(p)

C8_Witness == \E p \in Procs : Done(p) /\ RefineFailed(p)

\* C10: a transcription error on any attempt aborts the run at once: that
\* call is the last transcription call, refinement is not called, the error
\* is reported and the state returns to Idle.
TranscribeFailedAt(p, i) ==
    /\ i \in 1..Len(Acts(p, "transcribe"))
    /\ Acts(p, "transcribe")[i].a = "error"

C10_TranscribeErrorAborts ==
    \A p \in Procs : \A i \in 1..maxRetries :
       (Done(p) /\ TranscribeFailedAt(p, i)) =>
          /\ Len(Acts(p, "transcribe")) = i
          /\ Acts(p, "refine") = <<>>
          /\ Acts(p, "toast") =
                <<Toast("error", "Transcription failed: ", Acts(p, "transcribe")[i].b)>>
          /\ EndsWithReset(p)

C10_Witness == \E p \in Procs : Done(p) /\ TranscribeFailedAt(p, 3)

\* C9: when transcription returns a non-empty, non-marker text R and
\* refinement returns P, the run emits exactly one processing-complete whose
\* polished field is P, saves (R, P) to history at most once -- and, as the
\* claim has it, the state is Idle at the moment processing-complete is
\* emitted.
Succeeded(p) == Acts(p, "refine") # <<>> /\ Last(Acts(p, "refine")).a = "ok"

C9_ResultDelivered(p) ==
    LET R == Last(Acts(p, "refine")).b
        P == Last(Acts(p, "refine")).c
    IN /\ Last(Acts(p, "transcribe")) = Ev("transcribe", "ok", R, "")
       /\ Emitted(p, "processing-complete") =
             <<Ev("emit", "processing-complete", P, "")>>
       /\ Len(Acts(p, "save")) <= 1
       /\ \A i \in 1..Len(Acts(p, "save")) :
             Acts(p, "save")[i].b = R /\ Acts(p, "save")[i].c = P

C9_CompleteWhileIdle ==
    /\ [](\A p \in Procs : (Done(p) /\ Succeeded(p)) => C9_ResultDelivered(p))
    /\ [][\A p \in Procs :
            (pl[p].pc = "emit" /\ pl[p].ok /\ pl'[p].pc = "exit") =>
               (appState = Idle /\ mState = Idle)]_vars

\* C9, amended: ... and the run has set App.state and the Manager's state to
\* Idle before it emits processing-complete, which is its last act.
C9_CompleteAfterReset ==
    \A p \in Procs :
       (Done(p) /\ Succeeded(p)) =>
          /\ C9_ResultDelivered(p)
          /\ Len(pl[p].log) >= 4
          /\ SubSeq(pl[p].log, Len(pl[p].log) - 3, Len(pl[p].log)) =
                ResetActs \o Emitted(p, "processing-complete")

C9_Witness ==
    \E p \in Procs :
       /\ Done(p) /\ Succeeded(p)
       /\ Acts(p, "save") # <<>>
       /\ Emitted(p, "processing-complete") # <<>>

\* C11: a push-to-talk release handled while the Manager is Recording and
\* the trigger is HandsFree or None changes nothing: state and trigger stay,
\* no callback is dispatched, App.state and the recorder are untouched.
KeyStep == lastKey' # lastKey

C12_FailedReconfigureRestores ==
    (reconfigCh.st = "done" /\ reconfigCh.err = "failed to register ptt")
       => Bindings = reconfigCh.pre

\* C13: after a reconfiguration that returned an error, never exactly one
\* of the two bindings is registered with the OS.
C13_NeverHalfRegistered ==
    (reconfigCh.st = "done" /\ reconfigCh.err # "")
       => (handsFreeHK.reg <=> pushToTalkHK.reg)

C13_Witness ==
    /\ reconfigCh.st = "done" /\ reconfigCh.err = "failed to register ptt"
    /\ reconfigCh.pre[1] # <<>>
    /\ ~handsFreeHK.reg /\ ~pushToTalkHK.reg

\* C14: a start request made while the model is not ready returns an
\* error, starts no capture and leaves App.state and the Manager's state as
\* they were when the request was made.
C14_NotReadyLeavesState ==
    \A t \in Threads :
       (th[t].pc = "ret" /\ th[t].ret = "model not ready")
          => (<<appState, mState>> = th[t].pre /\ ~recording)

\* C15: a Recorder.Stop that directly follows a Recorder.Stop returns
\* "not recording" and changes neither the recording flag, the buffer, the
\* stream nor the files written.
C15_SecondStopIsNoOp ==
    [][(recLast.op = "stop" /\ recLast'.op = "stop" /\ recLast'.n # recLast.n)
       => (/\ recLast'.err = "not recording"
           /\ UNCHANGED <<recording, buffer, stream, artifacts>>)]_vars

C15_Witness ==
    /\ recLast.op = "stop" /\ recLast.prev = "stop"
    /\ recLast.err = "not recording"
    /\ artifacts # <<>> /\ buffer > 0

\* C16: at any time at most one download whose context is not cancelled is
\* in flight.
InFlight == {i \in Downloads : dl[i].pc = "run" /\ ~dl[i].cancelled}

C16_OneLiveDownload == Cardinality(InFlight) <= 1

\* C17: the Processing notification of StopRecording precedes everything
\* the pipeline it launches does, and StopRecording returns in the step
\* that launches the pipeline, which has done nothing yet.
C17_ProcessingAnnouncedFirst ==
    /\ [](\A p \in Procs : Active(p) => pl[p].announced)
    /\ [][\A p \in Procs :
            (~Active(p) /\ pl'[p].pc # "none") =>
               /\ pl'[p].pc = "stop" /\ pl'[p].log = <<>>
               /\ \E t \in Threads : th[t].pc = "st_go" /\ th'[t].pc = "ret"]_vars

C17_Witness ==
    \E p \in Procs :
       /\ pl[p].pc = "refine" /\ pl[p].announced
       /\ Acts(p, "transcribe") # <<>>
       /\ th[UI].pc = "idle"

\* C18: no state-changed notification is emitted for a transition after
\* the notification of a later transition has been emitted.
C18_NotificationsInOrder == ~lateNote

\* C19: a key event that the Manager accepts (its state changes) dispatches
\* the callback with the new state, one that it does not accept dispatches
\* nothing, and the callback runs with Manager.mu released.
C19_CallbackOutsideLock ==
    /\ [](th[HK].pc # "idle" => mu = "free")
    /\ [][KeyStep =>
            IF mState' # mState
              THEN th'[HK].pc = "cb" /\ th'[HK].arg = mState'
              ELSE th' = th]_vars

C19_Witness ==
    /\ th[HK].pc = "sr_mgr" /\ mu = "free"
    /\ lastKey.key = "hf" /\ mState = Recording

\* C20: a request whose caller timed out has changed no binding, when
\* Update returns and ever after.
C20_TimedOutRequestDropped ==
    reconfigCh.st = "timeout"
       => (/\ Bindings = reconfigCh.pre
           /\ reconfigCh.err = "timeout waiting for hotkey update")

C20_Witness ==
    /\ reconfigCh.st = "timeout"
    /\ reconfigCh.hf = <<"Ctrl", "Alt", "V">>
    /\ handsFreeHK.reg /\ pushToTalkHK.reg

\* a string that names no key combination (the empty string means that no
\* binding is configured)
Malformed(hotkeyStr) == hotkeyStr # EmptyString /\ parseHotkey(hotkeyStr).err

\* C21: a malformed hotkey string given to Manager.Start or to
\* Manager.Update makes the call return a non-nil error.
C21_MalformedReported ==
    /\ (probe.op = "Start"
          /\ (Malformed(probe.in.hf) \/ Malformed(probe.in.ptt)))
       => probe.out # ""
    /\ (reconfigCh.st = "done"
          /\ (Malformed(reconfigCh.hf) \/ Malformed(reconfigCh.ptt)))
       => reconfigCh.err # ""

\* the half of C21 that is about Update alone
UpdateReportsMalformed ==
    (reconfigCh.st = "done"
       /\ (Malformed(reconfigCh.hf) \/ Malformed(reconfigCh.ptt)))
    => reconfigCh.err # ""

\* C22: parseHotkey accepts a string exactly when, lower-cased and split
\* on "+", it has at least two parts, every part but the last is a
\* modifier name and the last part is a key name.
ModifierNames == {"cmd", "command", "super", "ctrl", "control", "shift",
                  "alt", "option", "opt"}
KeyNames == Letters \cup Digits \cup
            {"space", "return", "enter", "escape", "esc", "tab"}

WellFormed(hotkeyStr) ==
    /\ Len(hotkeyStr) >= 2
    /\ \A i \in 1..(Len(hotkeyStr) - 1) : ToLower(hotkeyStr[i]) \in ModifierNames
    /\ ToLower(hotkeyStr[Len(hotkeyStr)]) \in KeyNames

C22_ParseAcceptsExactly ==
    probe.op = "parseHotkey" => (~probe.out.err <=> WellFormed(probe.in))

C22_Witness ==
    /\ probe.op = "parseHotkey"
    /\ probe.in = <<"Ctrl", "OPT", "V">>
    /\ probe.out = Ok([mods |-> {"ModCtrl", "ModOption"}, key |-> "v"])

\* C23: from a Recorder.Stop that returned an artifact until the next
\* Start, GetDuration is the playing time of the samples written to the
\* artifact: the buffer is neither cleared nor appended to.
C23_DurationValidAfterStop ==
    (recLast.op = "stop" /\ recLast.err = "")
       => GetDuration = WavDuration(Last(artifacts))

\* C24: whenever no App operation is mid-execution (no start or stop in
\* progress, no callback, no pipeline running), App.state equals the
\* Manager's state.
C24_StatesAgree ==
    (Quiescent /\ ActivePipelines = {}) => appState = mState

\* C25: the artifact that Recorder.Stop hands to a pipeline is in the temp
\* directory for as long as the pipeline runs, its transcription calls
\* included, is removed only by the step in which the pipeline returns,
\* and is gone once the pipeline has returned, whatever path it took.
C25_ArtifactRemovedAtExit ==
    /\ [](\A p \in Procs :
            /\ (Active(p) /\ pl[p].wav) => WavFile(p) \in disk
            /\ ~Active(p) => WavFile(p) \notin disk)
    /\ [][\A p \in Procs :
            (WavFile(p) \in disk /\ WavFile(p) \notin disk')
               => (pl[p].pc = "exit" /\ pl'[p].pc = "none")]_vars

C25_Witness ==
    \E p \in Procs :
       /\ Done(p) /\ RefineFailed(p)
       /\ pl[p].wav /\ WavFile(p) \in disk
       /\ Acts(p, "transcribe") # <<>>

\* a save that failed half-way has left its file, which no pipeline removes
UnfinishedFileLeft == Unfinished \in disk /\ ActivePipelines = {}

\* C26: the key events the Manager accepts are a hands-free press in Idle
\* (to Recording, trigger HandsFree), a hands-free press in Recording with
\* trigger HandsFree or None (to Processing, None), a push-to-talk press
\* in Idle (to Recording, PushToTalk) and a push-to-talk release in
\* Recording with trigger PushToTalk (to Processing, None), and no other;
\* each dispatches one callback that carries the new state.
Accepted(key) ==
    CASE key = "hf" /\ mState = Idle -> <<Recording, TriggerHandsFree>>
      [] key = "hf" /\ mState = Recording
            /\ activeTrigger \in {TriggerHandsFree, TriggerNone} ->
                                       <<Processing, TriggerNone>>
      [] key = "down" /\ mState = Idle -> <<Recording, TriggerPushToTalk>>
      [] key = "up" /\ mState = Recording /\ activeTrigger = TriggerPushToTalk ->
                                       <<Processing, TriggerNone>>
      [] OTHER -> <<>>

C26_AcceptedTransitions ==
    [][KeyStep =>
         IF Accepted(lastKey'.key) # <<>>
           THEN /\ <<mState', activeTrigger'>> = Accepted(lastKey'.key)
                /\ th'[HK].pc = "cb"
                /\ th'[HK].arg = mState'
           ELSE UNCHANGED <<mState, activeTrigger>>]_vars

C26_Witness ==
    /\ lastKey.key = "hf"
    /\ th[HK].pc = "cb" /\ th[HK].arg = Processing
    /\ mState = Processing /\ activeTrigger = TriggerNone
    /\ appState = Recording /\ recording

\* C27: a key event handled in Processing, a hands-free press during a
\* recording that push-to-talk owns, a push-to-talk press in Recording
\* and a push-to-talk release in Idle change neither the Manager's state
\* nor its activeTrigger and dispatch no callback.
Refused(key) ==
    \/ mState = Processing
    \/ key = "hf" /\ mState = Recording /\ activeTrigger = TriggerPushToTalk
    \/ key = "down" /\ mState = Recording
    \/ key = "up" /\ mState = Idle

C27_OtherEventsIgnored ==
    [][(KeyStep /\ Refused(lastKey'.key))
         => UNCHANGED <<mState, activeTrigger, th, mu>>]_vars

C27_Witness ==
    /\ lastKey.key = "down"
    /\ mState = Processing /\ activeTrigger = TriggerHandsFree
    /\ th[HK].pc = "idle"

\* C28: the bindings are written only by the event loop, in a step it
\* takes from its select by receiving a request; a key event is handled
\* only from the select as well, so neither runs while a handler, its
\* callback or a reconfiguration is in progress.
BindingFields == <<handsFreeHK, pushToTalkHK, osRegistered>>
Received == reconfigCh.inCh /\ ~reconfigCh'.inCh /\ reconfigCh'.st # "timeout"

C28_OneLoopServesBoth ==
    /\ [][BindingFields' # BindingFields => Received]_vars
    /\ [][Received => (th[HK].pc = "idle" /\ th'[HK] = th[HK])]_vars
    /\ [][KeyStep => (th[HK].pc = "idle" /\ BindingFields' = BindingFields
                                           /\ reconfigCh' = reconfigCh)]_vars

C28_Witness ==
    /\ reconfigCh.st = "done" /\ reconfigCh.err = ""
    /\ reconfigCh.hf = <<"Ctrl", "Alt", "V">>
    /\ lastKey.key = "hf" /\ th[HK].pc = "sr_check"
    /\ handsFreeHK.reg /\ handsFreeHK.combo.key = "v"

\* C29: in Manager.Start a hands-free binding that fails to register
\* stops neither the registration of the push-to-talk binding nor the
\* event loop, and Start returns nil; in a reconfiguration it ends the
\* operation: push-to-talk is not registered and the error returned is
\* "failed to register hands-free".
\* a hotkey that was created and is not registered: Register() failed
RegisterFailed(hk) == hk # NoKey /\ ~hk.reg

C29_BestEffortStartStrictUpdate ==
    /\ [][(~running /\ running' /\ RegisterFailed(handsFreeHK'))
            => /\ probe'.out = ""
               /\ (/\ probe'.in.ptt # EmptyString
                   /\ ~parseHotkey(probe'.in.ptt).err
                   /\ probe'.in.okPTT) => pushToTalkHK'.reg]_vars
    /\ []((reconfigCh.st = "done" /\ RegisterFailed(handsFreeHK))
            => /\ reconfigCh.err = "failed to register hands-free"
               /\ pushToTalkHK = NoKey)

C29_Witness ==
    /\ probe.op = "Start" /\ probe.in.hf = DefaultHandsFree /\ ~probe.in.okHF
    /\ reconfigCh.pre[1] = <<>> /\ reconfigCh.pre[2] # <<>>
    /\ reconfigCh.st = "done" /\ RegisterFailed(handsFreeHK)
    /\ reconfigCh.ptt = DefaultPushToTalk

\* C30: a reconfiguration that fails on a malformed string returns its
\* error with the bindings that were in effect before the call still in
\* effect.
C30_MalformedRejectedFirst ==
    (reconfigCh.st = "done"
       /\ reconfigCh.err \in {"invalid hands-free hotkey", "invalid ptt hotkey"})
    => Bindings = reconfigCh.pre

\* C31: once Manager.Stop has been called, a key event that the event
\* loop handles (hands-free press, push-to-talk press or release) leaves
\* Manager.state and activeTrigger as they are and calls no callback; the
\* loop goes on receiving the events.
C31_NoEventAcceptedAfterStop ==
    [][(KeyStep /\ ~running)
         => (UNCHANGED <<mState, activeTrigger, appState>> /\ th' = th)]_vars

\* a hands-free press handled after Stop, in a state in which it would
\* have begun a recording
C31_Witness ==
    /\ ~running /\ ~lastKey.on /\ lastKey.key = "hf"
    /\ mState = Idle /\ th[HK].pc = "idle"

\* a call of Recorder.Start / Recorder.Stop has just returned
StartCalled == recLast' # recLast /\ recLast'.op = "start"
StopCalled == recLast' # recLast /\ recLast'.op = "stop"

\* C32: Recorder.Start called while the recorder is recording returns
\* "already recording" and changes nothing: the buffer, the stream and
\* the recording flag stay as they are and no capture loop is launched.
C32_StartWhileRecordingRefused ==
    [][(StartCalled /\ recording)
         => /\ recLast'.err = "already recording"
            /\ UNCHANGED <<buffer, stream, recording, loops, artifacts>>]_vars

\* a refused Start with samples in the buffer and one capture loop alive
C32_Witness ==
    /\ recLast.op = "start" /\ recLast.err = "already recording"
    /\ recording /\ stream /\ buffer > 0 /\ LoopCount = 1

\* C33: Recorder.Stop on a recording with no samples returns an error and
\* writes no file, and leaves the recorder stopped (flag cleared, stream
\* released); the pipeline shows the error and goes back to Idle, and
\* the Start that follows is not refused as "already recording".
NoSamplesError == "no audio data recorded"
StopFailedActs ==
    <<Ev("stop", "error", NoSamplesError, ""),
      Toast("error", "Failed to stop recording: ", NoSamplesError)>>

C33_EmptyStopLeavesRecorderStopped ==
    /\ [][(StopCalled /\ recording /\ buffer = 0)
            => /\ recLast'.err = NoSamplesError
               /\ UNCHANGED <<artifacts, disk>>
               /\ ~recording' /\ ~stream'
               /\ ~pl'[1].wav /\ pl'[1].log = StopFailedActs]_vars
    /\ [](Done(1) /\ Acts(1, "stop") = <<StopFailedActs[1]>>
            => pl[1].log = StopFailedActs \o ResetActs)
    /\ [][(StartCalled /\ recLast.op = "stop" /\ recLast.err = NoSamplesError)
            => recLast'.err # "already recording"]_vars

\* a Stop that found the buffer empty has just returned
C33_Witness ==
    /\ recLast.op = "stop" /\ recLast.err = NoSamplesError
    /\ buffer = 0 /\ LoopCount > 0
    /\ pl[1].pc = "setIdle"

\* C34: the capture loop of a recording returns at its first check of the
\* recording flag after the Stop that ended the recording, also when a
\* new Start has followed that Stop; so at most one loop is past its check
\* (reading, or appending to the buffer) at any time.
CheckedByOld == loops'.old.check = loops.old.check - 1

C34_LoopExitsAfterItsStop ==
    [][CheckedByOld => LoopCount' = LoopCount - 1]_vars

\* the consequence: never two loops at the append
OneLoopAppends == loops.cur.append + loops.old.append <= 1

\* C35: a run whose refinement succeeded and whose history save failed, or
\* which has no history or no injection service, still hands the polished
\* text to the injection service when there is one, still puts the state
\* back to Idle and still emits processing-complete, and shows no toast.
SaveFailed(p) == Acts(p, "save") # <<>> /\ Last(Acts(p, "save")).a = "error"
SideEffectFailed(p) == SaveFailed(p) \/ ~historyOn \/ ~injectionOn

C35_SideEffectsNeverBlock ==
    \A p \in Procs :
       (Done(p) /\ Succeeded(p) /\ SideEffectFailed(p)) =>
          LET P == Last(Acts(p, "refine")).c
              complete == <<Ev("emit", "processing-complete", P, "")>>
          IN /\ Acts(p, "deliver") =
                   (IF injectionOn THEN <<Ev("deliver", "spawned", P, "")>> ELSE <<>>)
             /\ injectionOn => (P \in clipQueue \/ clipboard = P)
             /\ Acts(p, "toast") = <<>>
             /\ Len(pl[p].log) >= 4
             /\ SubSeq(pl[p].log, Len(pl[p].log) - 3, Len(pl[p].log)) =
                   ResetActs \o complete

\* the save failed, the text is on the clipboard all the same
C35_Witness ==
    /\ Done(1) /\ Succeeded(1) /\ SaveFailed(1)
    /\ injectionOn /\ clipboard = Last(Acts(1, "refine")).c
    /\ appState = Idle

\* C36: on a successful run the delivery of the polished text (clipboard
\* write and paste) is finished before the run puts the state back to
\* Idle and before it emits processing-complete, hence before the next
\* recording can start.
PastDelivery(p) == pl[p].ok /\ pl[p].pc \in {"mgrIdle", "emit", "exit"}

C36_DeliveredBeforeIdle ==
    \A p \in Procs : PastDelivery(p) => pl[p].polishedText \notin clipQueue

\* the part about the next recording: none starts with a delivery pending
NoDeliveryWhileRecording == recording => clipQueue = {}

\* C37: whenever App.state is Idle and no operation is in progress (no
\* start or stop, no callback, no pipeline), the recorder is not recording:
\* a start made from Idle is not refused as "already recording".
C37_IdleMeansNotRecording ==
    (Quiescent /\ ActivePipelines = {} /\ appState = Idle) => ~recording

\* C38: while a download is in flight and not cancelled, App.downloadCancel
\* holds the cancel function of that download; the return of an earlier
\* download neither clears nor replaces it.
C38_HandleOfLiveDownload == \A i \in InFlight : downloadCancel = i

\* C39: every change of App.state is followed by a state-changed
\* notification of the new state; in particular the StartRecording that
\* a hotkey press has called and that puts the state back to Idle because
\* the recorder did not start returns with state-changed Idle emitted,
\* the last notification then being that of App.state.
C39_RollbackReported ==
    [][(th[HK].pc = "sr_rb_mgr" /\ th'[HK].pc = "ret")
         => th'[HK].told = appState']_vars

\* the general form: with nothing in progress, no write of App.state is
\* left without its notification
EveryWriteNotified == (Quiescent /\ ActivePipelines = {}) => pendingNotes = <<>>

\* C40: when SetHandsFreeHotkey or SetPushToTalkHotkey cannot apply the new
\* hotkey, it returns the error of the update, the configured hotkey is
\* the previous one again, nothing was saved, and a second update with
\* the previous pair was made which, if it succeeded, has registered the
\* previous hands-free and push-to-talk bindings; the other hotkey's
\* configured value is changed by no step of the call.
SetFailed == setter.pc = "rewait" /\ setter'.pc = "ret"
PreviousPair == <<GetOf(setter.cfg, "hf"), GetOf(setter.cfg, "ptt")>>
Restored == reconfigCh.st = "done" /\ reconfigCh.err = ""

C40_FailedSetRestores ==
    /\ [][SetFailed =>
            /\ setter'.ret = setter.err /\ setter.err # ""
            /\ <<GetHandsFreeHotkey, GetPushToTalkHotkey>> = PreviousPair
            /\ config.file = setter.cfg.file
            /\ <<reconfigCh.hf, reconfigCh.ptt>> = PreviousPair
            /\ Restored =>
                  /\ Bindings = <<<<parseHotkey(PreviousPair[1]).val>>,
                                  <<parseHotkey(PreviousPair[2]).val>>>>
                  /\ \A i \in 1..2 :
                        setter.pre[i] # <<>> => Bindings[i] = setter.pre[i]]_vars
    /\ [][/\ config'.hf # config.hf => setter'.which = "hf"
          /\ config'.ptt # config.ptt => setter'.which = "ptt"]_vars

\* a call that failed has returned, the second update having put back the
\* two bindings that were in effect before it
C40_Witness ==
    /\ setter.pc = "ret" /\ setter.ret \notin {"", "none", "failed to save config"}
    /\ Restored
    /\ setter.pre[1] # <<>> /\ setter.pre[2] # <<>>
    /\ Bindings = setter.pre

====
